---- MODULE Spec2Model ----
(***************************************************************************)
(* PlaySwag: request tracking (RequestTracker, GlobalRequestStore), the    *)
(* OpenAPI path matcher (OpenAPIParser) and the coverage analysis          *)
(* (CoverageAnalyzer).                                                     *)
(***************************************************************************)
EXTENDS Integers, Sequences, FiniteSets, TLC

\* ------------------------------------------------------------------ bounds
\* Number of verb calls issued in one behaviour.
MaxCalls == 2

\* ------------------------------------------------------------ value domains
\* An optional field (status?, duration?) that is absent.
Undefined == -1

\* The RequestTracker instances of the process.
Trackers == {"t1", "t2"}

\* Status codes the collaborator's response may carry.
Statuses == {200, 404}

\* Milliseconds that pass while a call is awaited.
Latencies == {0, 1}

\* The useGlobalTracking argument each instance is constructed with: one
\* instance takes the default (true), one opts out.
CtorGlobalTracking == [t \in Trackers |-> t = "t1"]

\* Failures the collaborator may raise (a transport failure, a timeout).
Errors == {"TimeoutError"}

NoError == "none"

\* What the awaited requestFn() settles with.
Outcomes ==
  [kind : {"response"}, status : Statuses, error : {NoError}]
    \cup [kind : {"error"}, status : {Undefined}, error : Errors]

\* The stores do not depend on how long a call took nor on which status it
\* got: the specifications about the stores let every call settle within the
\* millisecond, with one response or one failure.
StoreLatencies == {0}

StoreOutcomes == {o \in Outcomes : o.status \in {200, Undefined}}

NoOutcome == [kind |-> "none", status |-> Undefined, error |-> NoError]

\* URLs are kept in parsed form: origin, path and query string.
Urls ==
  { [base |-> "https://h", pathname |-> <<"/", "a">>, search |-> <<>>] }

\* String.prototype.toUpperCase on the method names in use.
ToUpperCase(s) ==
  CASE s \in {"get", "GET"} -> "GET"
    [] s \in {"post", "POST"} -> "POST"
    [] s \in {"put", "PUT"} -> "PUT"
    [] s \in {"patch", "PATCH"} -> "PATCH"
    [] s \in {"delete", "DELETE"} -> "DELETE"
    [] s \in {"head", "HEAD"} -> "HEAD"
    [] s \in {"options", "OPTIONS"} -> "OPTIONS"

\* options.method as passed to fetch(); "" is an absent method.
FetchMethods == {"", "post"}

VARIABLES
  requests,           \* RequestTracker.requests, per instance
  globalStore,        \* GlobalRequestStore.requests
  useGlobalTracking,  \* RequestTracker.useGlobalTracking, per instance
  calls,              \* the trackRequest invocations, in issue order
  now,                \* Date.now()
  clearedLocal,       \* clearRequests() has run on some instance
  clearedGlobal,      \* clearGlobalRequests() has run
  parser,             \* OpenAPIParser.spec: the path items in document order
  requestPath,        \* the argument of matchPath
  endpointList,       \* what the last getEndpoints call was given and returned
  matchResult,        \* what the last matchPath call returned
  report,             \* what the last analyze call returned
  analyzer,           \* PlaySwag.analyzer is set (a spec has been loaded)
  loads,              \* the loadSpecFromUrl invocations, in issue order
  lastCall,           \* how the last PlaySwag or export call ended
  files,              \* the files writeFileSync has written, by path
  comprehensiveSummary  \* what the last generateComprehensiveSummary call returned

vars ==
  <<requests, globalStore, useGlobalTracking, calls, now,
    clearedLocal, clearedGlobal, parser, requestPath, endpointList, matchResult, report,
    analyzer, loads, lastCall, files, comprehensiveSummary>>

trackerVars == <<requests, globalStore, useGlobalTracking, calls, now>>
historyVars == <<clearedLocal, clearedGlobal>>
parserVars == <<parser, requestPath, endpointList, matchResult, report>>
playswagVars == <<analyzer, loads, lastCall, files, comprehensiveSummary>>

\* ------------------------------------------------------ GlobalRequestStore
\* A store that overwrites its last element instead of growing.
addRequest_overwrite(store, request) ==
  IF store = <<>> THEN <<request>> ELSE [store EXCEPT ![Len(store)] = request]

\* A store that inserts at the front.
addRequest_unshift(store, request) == <<request>> \o store

addRequest(store, request) == Append(store, request)

\* ---------------------------------------------------------- RequestTracker
\* new RequestTracker(context, useGlobalTracking)
InitTracker ==
  /\ requests = [t \in Trackers |-> <<>>]
  /\ globalStore = <<>>
  /\ useGlobalTracking = CtorGlobalTracking
  /\ calls = <<>>
  /\ now = 0
  /\ clearedLocal = FALSE
  /\ clearedGlobal = FALSE

\* No getEndpoints call made yet.
NoEndpointList == [called |-> FALSE]

\* No matchPath call made yet.
NoMatchResult == [called |-> FALSE, endpoints |-> <<>>]

\* No analyze call made yet.
NoReport == [called |-> FALSE]

\* No PlaySwag or export call made yet.
NoCall == [op |-> "none", error |-> "none"]

\* No generateComprehensiveSummary call made yet.
NoSummary == [called |-> FALSE]

\* new PlaySwag(context, useGlobalTracking): no parser, no analyzer.
InitPlaySwag ==
  /\ analyzer = FALSE
  /\ loads = <<>>
  /\ lastCall = NoCall
  /\ files = <<>>
  /\ comprehensiveSummary = NoSummary

\* A process whose trackers are constructed and that has no spec loaded.
Init ==
  /\ InitTracker
  /\ parser = <<>>
  /\ requestPath = <<>>
  /\ endpointList = NoEndpointList
  /\ matchResult = NoMatchResult
  /\ report = NoReport
  /\ InitPlaySwag

\* trackRequest up to its await: the start time is read and requestInfo built.
trackRequest(t, method, url) ==
  /\ Len(calls) < MaxCalls
  /\ LET startTime == now IN
       /\ now' = now
       /\ calls' = Append(calls,
            [tracker |-> t,
             requestInfo |-> [id |-> Len(calls) + 1,
                              method |-> ToUpperCase(method),
                              url |-> url,
                              timestamp |-> startTime,
                              status |-> Undefined,
                              duration |-> Undefined],
             pc |-> "await",
             settled |-> NoOutcome,
             result |-> NoOutcome,
             global |-> FALSE,
             globalAtIssue |-> useGlobalTracking[t]])
  /\ UNCHANGED <<requests, globalStore, useGlobalTracking, historyVars, parserVars, playswagVars>>

get(t, url) == trackRequest(t, "GET", url)
post(t, url) == trackRequest(t, "POST", url)
put(t, url) == trackRequest(t, "PUT", url)
patch(t, url) == trackRequest(t, "PATCH", url)
delete(t, url) == trackRequest(t, "DELETE", url)
head(t, url) == trackRequest(t, "HEAD", url)
fetch(t, url, optMethod) ==
  trackRequest(t, IF optMethod = "" THEN "GET" ELSE optMethod, url)

\* A completion that stamps the Observation with the time the call settled.
finalize_restamp(partial, outcome, endTime) ==
  [partial EXCEPT
     !.status = IF outcome.kind = "response" THEN outcome.status ELSE @,
     !.duration = endTime - partial.timestamp,
     !.timestamp = endTime]

\* requestInfo as the try branch (a response) or the catch branch (a failure)
\* completes it.
finalize(partial, outcome, endTime) ==
  [partial EXCEPT
     !.status = IF outcome.kind = "response" THEN outcome.status ELSE @,
     !.duration = endTime - partial.timestamp]

\* A push that keeps the local array in issue order.
pushLocal_byIssue(local, requestInfo) ==
  SelectSeq(local, LAMBDA r : r.id < requestInfo.id)
    \o <<requestInfo>>
    \o SelectSeq(local, LAMBDA r : r.id > requestInfo.id)

\* this.requests.push(requestInfo)
pushLocal(local, requestInfo) == Append(local, requestInfo)

\* A push to the global store that ignores useGlobalTracking.
pushGlobal_always(t, requestInfo) == addRequest(globalStore, requestInfo)

\* if (this.useGlobalTracking) this.globalStore.addRequest(requestInfo)
pushGlobal(t, requestInfo) ==
  IF useGlobalTracking[t] THEN addRequest(globalStore, requestInfo) ELSE globalStore

\* A catch branch that swallows the failure and resolves with nothing.
deliver_swallow(outcome) ==
  IF outcome.kind = "error" THEN NoOutcome ELSE outcome

\* `return response` in the try branch, `throw error` in the catch branch.
deliver(outcome) == outcome

\* The continuation of trackRequest after `await requestFn()`: the try branch
\* when the collaborator returned a response, the catch branch when it threw.
resume(c, outcome, latency) ==
  /\ c \in 1..Len(calls)
  /\ calls[c].pc = "await"
  /\ LET endTime == now + latency
           t == calls[c].tracker
           requestInfo == finalize(calls[c].requestInfo, outcome, endTime)
       IN /\ now' = endTime
          /\ requests' = [requests EXCEPT ![t] = pushLocal(@, requestInfo)]
          /\ globalStore' = pushGlobal(t, requestInfo)
          /\ calls' = [calls EXCEPT
                         ![c].requestInfo = requestInfo,
                         ![c].pc = IF outcome.kind = "response" THEN "returned" ELSE "thrown",
                         ![c].settled = outcome,
                         ![c].result = deliver(outcome),
                         ![c].global = useGlobalTracking[t]]
  /\ UNCHANGED <<useGlobalTracking, historyVars, parserVars, playswagVars>>

\* A clearRequests() that also empties the global store.
clearRequests_all(t) ==
  /\ requests' = [requests EXCEPT ![t] = <<>>]
  /\ globalStore' = <<>>
  /\ clearedLocal' = TRUE
  /\ UNCHANGED <<useGlobalTracking, calls, now, clearedGlobal, parserVars, playswagVars>>

clearRequests(t) ==
  /\ requests' = [requests EXCEPT ![t] = <<>>]
  /\ clearedLocal' = TRUE
  /\ UNCHANGED <<globalStore, useGlobalTracking, calls, now, clearedGlobal,
                 parserVars, playswagVars>>

\* clearGlobalRequests() of any instance: GlobalRequestStore.clearRequests().
clearGlobalRequests(t) ==
  /\ globalStore' = <<>>
  /\ clearedGlobal' = TRUE
  /\ UNCHANGED <<requests, useGlobalTracking, calls, now, clearedLocal,
                 parserVars, playswagVars>>

\* A setGlobalTracking() that, on disabling, withdraws the instance's
\* Observations from the global store.
setGlobalTracking_retract(t, enabled) ==
  /\ useGlobalTracking' = [useGlobalTracking EXCEPT ![t] = enabled]
  /\ globalStore' =
       IF enabled
         THEN globalStore
         ELSE SelectSeq(globalStore, LAMBDA r : calls[r.id].tracker # t)
  /\ UNCHANGED <<requests, calls, now, historyVars, parserVars, playswagVars>>

setGlobalTracking(t, enabled) ==
  /\ useGlobalTracking' = [useGlobalTracking EXCEPT ![t] = enabled]
  /\ UNCHANGED <<requests, globalStore, calls, now, historyVars, parserVars, playswagVars>>

NextVerbs ==
  \/ \E t \in Trackers, url \in Urls : get(t, url)
  \/ \E t \in Trackers, url \in Urls : post(t, url)
  \/ \E t \in Trackers, url \in Urls : put(t, url)
  \/ \E t \in Trackers, url \in Urls : patch(t, url)
  \/ \E t \in Trackers, url \in Urls : delete(t, url)
  \/ \E t \in Trackers, url \in Urls : head(t, url)
  \/ \E t \in Trackers, url \in Urls, m \in FetchMethods : fetch(t, url, m)
  \/ \E c \in 1..MaxCalls, outcome \in Outcomes, latency \in Latencies :
       resume(c, outcome, latency)

SpecVerbs == Init /\ [][NextVerbs]_vars

\* ------------------------------------------------- properties of the calls
Done(c) == calls[c].pc \in {"returned", "thrown"}

\* How many entries of the sequence seq are the Observation of call c.
Count(seq, c) == Cardinality({i \in 1..Len(seq) : seq[i].id = c})

InSeq(seq, c) == \E i \in 1..Len(seq) : seq[i].id = c

\* C1: once a verb call has settled (returned or thrown), exactly one
\* Observation of it is in its own interceptor's local sequence, none in any
\* other interceptor's, and one in the shared sequence exactly when shared
\* tracking is enabled for its interceptor; a call still in flight has none.
C1_OneObservationPerCall ==
  \A c \in 1..Len(calls) :
    LET t == calls[c].tracker IN
    IF Done(c)
      THEN /\ Count(requests[t], c) = 1
           /\ \A u \in Trackers \ {t} : Count(requests[u], c) = 0
           /\ Count(globalStore, c) = (IF useGlobalTracking[t] THEN 1 ELSE 0)
      ELSE /\ \A u \in Trackers : Count(requests[u], c) = 0
           /\ Count(globalStore, c) = 0

C1_Witness ==
  \E c, d \in 1..Len(calls) :
    /\ calls[c].pc = "thrown" /\ calls[c].tracker = "t2"
    /\ calls[c].requestInfo.method = "PATCH"
    /\ calls[d].pc = "returned" /\ calls[d].tracker = "t1"
    /\ calls[d].requestInfo.method = "HEAD"
    /\ Count(requests["t2"], c) = 1 /\ Count(globalStore, c) = 0
    /\ Count(requests["t1"], d) = 1 /\ Count(globalStore, d) = 1

\* C2: a call that threw hands its caller the very failure the collaborator
\* raised, and at that moment its Observation, with a duration and without a
\* status, is in the local sequence and, when tracking is enabled, in the
\* shared one; a call that returned hands its caller the collaborator's
\* response unchanged.
C2_OutcomePropagated ==
  \A c \in 1..Len(calls) :
    LET t == calls[c].tracker IN
    /\ calls[c].pc = "thrown" =>
         /\ calls[c].settled.kind = "error"
         /\ calls[c].result = calls[c].settled
         /\ \E i \in 1..Len(requests[t]) :
              /\ requests[t][i].id = c
              /\ requests[t][i].duration # Undefined
              /\ requests[t][i].duration >= 0
              /\ requests[t][i].status = Undefined
         /\ useGlobalTracking[t] =>
              \E i \in 1..Len(globalStore) :
                /\ globalStore[i].id = c
                /\ globalStore[i].duration # Undefined
                /\ globalStore[i].status = Undefined
    /\ calls[c].pc = "returned" =>
         /\ calls[c].settled.kind = "response"
         /\ calls[c].result = calls[c].settled

C2_Witness ==
  \E c, d \in 1..Len(calls) :
    /\ calls[c].pc = "thrown" /\ calls[c].tracker = "t1"
    /\ calls[c].result.error = "TimeoutError"
    /\ InSeq(globalStore, c)
    /\ calls[d].pc = "returned" /\ calls[d].result.status = 404

\* C6 as stated: within one interceptor the local sequence is in call-issuance
\* order, whatever the order in which the calls settle.
C6_IssueOrder ==
  \A t \in Trackers : \A i, j \in 1..Len(requests[t]) :
    i < j => requests[t][i].id < requests[t][j].id

\* C6 amended: the local sequence is in settlement order: the Observation of
\* a call that settles is placed after every Observation already recorded,
\* and nothing else changes the sequence.
C6_SettleOrder ==
  [][\A t \in Trackers :
       \/ requests'[t] = requests[t]
       \/ \E c \in 1..Len(calls) :
            /\ calls[c].tracker = t
            /\ calls[c].pc = "await"
            /\ calls'[c].pc # "await"
            /\ requests'[t] = Append(requests[t], calls'[c].requestInfo)]_vars

\* Two overlapping calls of one interceptor, the later one settled first.
C6_Witness ==
  \E t \in Trackers :
    /\ Len(requests[t]) = 2
    /\ requests[t][1].id = 2
    /\ requests[t][2].id = 1

\* C7: while no clear operation runs, no append is lost or duplicated: each
\* local sequence is as long as the number of settled calls of its
\* interceptor, and the shared sequence as long as the number of settled
\* calls whose interceptor had shared tracking enabled.
C7_NoLostAppend ==
  /\ \A t \in Trackers :
       Len(requests[t]) =
         Cardinality({c \in 1..Len(calls) : Done(c) /\ calls[c].tracker = t})
  /\ Len(globalStore) =
       Cardinality({c \in 1..Len(calls) : Done(c) /\ calls[c].global})

\* Two calls in flight at once on the enabled interceptor, both settled.
C7_Witness ==
  /\ Len(calls) = 2
  /\ \A c \in 1..2 : Done(c) /\ calls[c].tracker = "t1"
  /\ calls[1].requestInfo.duration = 1
  /\ calls[2].requestInfo.timestamp = 0
  /\ Len(globalStore) = 2

NextToggle ==
  \/ \E t \in Trackers, url \in Urls : get(t, url)
  \/ \E t \in Trackers, url \in Urls : post(t, url)
  \/ \E t \in Trackers, url \in Urls, m \in FetchMethods : fetch(t, url, m)
  \/ \E c \in 1..MaxCalls, outcome \in StoreOutcomes, latency \in StoreLatencies :
       resume(c, outcome, latency)
  \/ \E t \in Trackers, enabled \in BOOLEAN : setGlobalTracking(t, enabled)

SpecToggle == Init /\ [][NextToggle]_vars

\* C8 as stated: the Observation of a call made while shared tracking is
\* disabled goes to the local sequence only, that of a call made while it is
\* enabled goes to both.
C8_SettingAtIssue ==
  \A c \in 1..Len(calls) :
    Done(c) => (InSeq(globalStore, c) <=> calls[c].globalAtIssue)

\* C8 amended: setGlobalTracking() changes the contents of neither sequence,
\* Observations in the shared sequence stay there, and the setting that
\* counts for a call is the one in force when the call settles: its
\* Observation goes to the local sequence only when tracking is then
\* disabled, and to both when it is then enabled.
C8_SettingAtSettle ==
  [][/\ \A t \in Trackers, enabled \in BOOLEAN :
          setGlobalTracking(t, enabled) =>
            (requests' = requests /\ globalStore' = globalStore)
     /\ \A c \in 1..Len(calls) :
          /\ InSeq(globalStore, c) => InSeq(globalStore', c)
          /\ (calls[c].pc = "await" /\ calls'[c].pc # "await") =>
               /\ InSeq(requests'[calls[c].tracker], c)
               /\ InSeq(globalStore', c) <=> useGlobalTracking[calls[c].tracker]]_vars

\* An Observation recorded in shared, tracking then disabled, and a later
\* call of the same interceptor recorded locally only.
C8_Witness ==
  /\ Len(calls) = 2
  /\ \A c \in 1..2 : Done(c) /\ calls[c].tracker = "t1"
  /\ calls[1].global /\ calls[1].globalAtIssue
  /\ ~calls[2].global /\ ~calls[2].globalAtIssue
  /\ InSeq(globalStore, 1) /\ ~InSeq(globalStore, 2)
  /\ Len(requests["t1"]) = 2

Next ==
  \/ \E t \in Trackers, url \in Urls : get(t, url)
  \/ \E c \in 1..MaxCalls, outcome \in StoreOutcomes, latency \in StoreLatencies :
       resume(c, outcome, latency)
  \/ \E t \in Trackers : clearRequests(t)
  \/ \E t \in Trackers : clearGlobalRequests(t)
  \/ \E t \in Trackers, enabled \in BOOLEAN : setGlobalTracking(t, enabled)

Spec == Init /\ [][Next]_vars

\* ------------------------------------------- properties of the two stores
\* sub is seq with some entries left out.
IsSubsequence(sub, seq) ==
  \E f \in [1..Len(sub) -> 1..Len(seq)] :
    /\ \A i \in 1..Len(sub) : seq[f[i]] = sub[i]
    /\ \A i, j \in 1..Len(sub) : i < j => f[i] < f[j]

Elems(seq) == {seq[i] : i \in 1..Len(seq)}

\* C3: clearRequests() on an instance empties that instance's local sequence
\* and leaves the shared sequence and every other local sequence unchanged;
\* clearGlobalRequests() through any instance empties the shared sequence and
\* leaves every local sequence unchanged.
C3_ClearFrame ==
  [][/\ \A t \in Trackers :
          clearRequests(t) =>
            /\ requests'[t] = <<>>
            /\ globalStore' = globalStore
            /\ \A u \in Trackers \ {t} : requests'[u] = requests[u]
     /\ \A t \in Trackers :
          clearGlobalRequests(t) =>
            /\ globalStore' = <<>>
            /\ requests' = requests]_vars

\* Two interceptors each contributed one Observation; the shared sequence
\* was then cleared: both locals still hold one element, shared is empty.
C3_Witness ==
  /\ clearedGlobal
  /\ ~clearedLocal
  /\ globalStore = <<>>
  /\ \A t \in Trackers : Len(requests[t]) = 1
  /\ Len(calls) = 2
  /\ \A c \in 1..2 : Done(c) /\ calls[c].global

\* C4 as stated: in every reachable state the elements of an interceptor's
\* local sequence appear in the shared sequence, in the same relative order,
\* if it was constructed with shared tracking enabled, and do not appear
\* there if it was constructed with shared tracking disabled.
C4_LocalInShared ==
  \A t \in Trackers :
    IF CtorGlobalTracking[t]
      THEN IsSubsequence(requests[t], globalStore)
      ELSE Elems(requests[t]) \cap Elems(globalStore) = {}

\* C4 amended: as long as clearGlobalRequests() has not run, the elements of
\* an interceptor's local sequence that were recorded while its shared
\* tracking was enabled appear in the shared sequence in the same relative
\* order, and those recorded while it was disabled do not appear there.
C4_TrackedLocalInShared ==
  ~clearedGlobal =>
    \A t \in Trackers :
      /\ IsSubsequence(SelectSeq(requests[t], LAMBDA r : calls[r.id].global),
                        globalStore)
      /\ \A r \in Elems(requests[t]) :
           ~calls[r.id].global => r \notin Elems(globalStore)

\* An interceptor with two tracked Observations, recorded out of issue
\* order, after a local clear on the other interceptor and a toggle.
C4_Witness ==
  /\ ~clearedGlobal
  /\ clearedLocal
  /\ Len(requests["t1"]) = 2
  /\ requests["t1"][1].id = 2
  /\ globalStore = requests["t1"]
  /\ ~useGlobalTracking["t1"]

\* C5 as stated: in every reachable state the shared sequence is the union
\* of the local sequences of the interceptors that have shared tracking
\* enabled.
C5_SharedIsUnion ==
  /\ \A r \in Elems(globalStore) :
       \E t \in Trackers : useGlobalTracking[t] /\ r \in Elems(requests[t])
  /\ \A t \in Trackers :
       useGlobalTracking[t] => Elems(requests[t]) \subseteq Elems(globalStore)

\* C5 amended: as long as no clear operation has run, the shared sequence is
\* the union, in arrival order, of what the interceptors recorded while
\* their shared tracking was enabled: restricted to one interceptor it is
\* that interceptor's local sequence restricted to the Observations recorded
\* while tracking was enabled, and it holds nothing else.
C5_SharedIsTrackedUnion ==
  (~clearedGlobal /\ ~clearedLocal) =>
    /\ \A t \in Trackers :
         SelectSeq(globalStore, LAMBDA r : calls[r.id].tracker = t)
           = SelectSeq(requests[t], LAMBDA r : calls[r.id].global)
    /\ \A i \in 1..Len(globalStore) :
         /\ calls[globalStore[i].id].global
         /\ \A j \in 1..Len(globalStore) :
              globalStore[i].id = globalStore[j].id => i = j

\* Both interceptors contributed to the shared sequence, one of them also
\* recorded an Observation while disabled.
C5_Witness ==
  /\ ~clearedGlobal /\ ~clearedLocal
  /\ Len(globalStore) = 1
  /\ calls[globalStore[1].id].tracker = "t2"
  /\ Len(requests["t1"]) = 1
  /\ ~calls[requests["t1"][1].id].global

\* ------------------------------------------------------------ OpenAPIParser
\* Strings that are taken apart (path templates, request paths, regular
\* expression sources) are sequences of one-character strings.

\* Longest template and longest request path, in segments.
MaxSegments == 3

Min(S) == CHOOSE x \in S : \A y \in S : x <= y

RECURSIVE Concat(_)
Concat(seqs) == IF seqs = <<>> THEN <<>> ELSE Head(seqs) \o Concat(Tail(seqs))

\* "/" + segment for every segment, joined.
JoinSegments(segs) == Concat([i \in 1..Len(segs) |-> <<"/">> \o segs[i]])

SeqsUpTo(S, n) == UNION {[1..k -> S] : k \in 1..n}

\* Segments of the declared path templates: a literal, a parameter, a literal
\* with a dot in it, and the empty segment (the root path, a trailing slash).
TemplateSegments == {<<"a">>, <<"{", "i", "}">>, <<"a", ".", "a">>, <<>>}

\* Segments of the request paths.
PathSegments == {<<"a">>, <<"b">>, <<"a", ".", "a">>, <<"a", "b", "a">>, <<>>}

Templates == {JoinSegments(segs) : segs \in SeqsUpTo(TemplateSegments, MaxSegments)}

RequestPaths == {JoinSegments(segs) : segs \in SeqsUpTo(PathSegments, MaxSegments)}

\* The method keys in alphabetical order.
methods_alphabetical == <<"delete", "get", "head", "options", "patch", "post", "put">>

\* The method keys getEndpoints looks up, in its order.
methods == <<"get", "post", "put", "patch", "delete", "head", "options">>

\* The endpoint pushed for one operation of a path item; `tags` is the
\* operation's tags array, absent when the operation has none.
endpointOf(pathItem, method) ==
  IF "tags" \in DOMAIN pathItem /\ method \in DOMAIN pathItem.tags
    THEN [path |-> pathItem.path, method |-> ToUpperCase(method),
          tags |-> pathItem.tags[method]]
    ELSE [path |-> pathItem.path, method |-> ToUpperCase(method)]

\* getEndpoints(): for every path item in document order and every method key
\* in the fixed order, the endpoint of the operation the item declares.
RECURSIVE getEndpoints(_)
getEndpoints(spec) ==
  IF spec = <<>>
    THEN <<>>
    ELSE LET pathItem == Head(spec)
             declared == SelectSeq(methods, LAMBDA m : m \in pathItem.methods)
         IN [i \in 1..Len(declared) |-> endpointOf(pathItem, declared[i])]
              \o getEndpoints(Tail(spec))

\* path.replace(/\{[^}]+\}/g, '[^/]+'): from left to right, an opening brace,
\* at least one character other than a closing brace, and the closing brace
\* become the five characters [^/]+ .
RECURSIVE replaceParams(_, _)
replaceParams(path, i) ==
  IF i > Len(path)
    THEN <<>>
    ELSE LET closing == {j \in (i + 1)..Len(path) : path[j] = "}"}
         IN IF path[i] = "{" /\ closing # {} /\ Min(closing) > i + 1
              THEN <<"[", "^", "/", "]", "+">> \o replaceParams(path, Min(closing) + 1)
              ELSE <<path[i]>> \o replaceParams(path, i + 1)

\* .replace(/\//g, '\\/'): every slash gets a backslash in front of it.
RECURSIVE escapeSlashes(_)
escapeSlashes(str) ==
  IF str = <<>>
    THEN <<>>
    ELSE (IF Head(str) = "/" THEN <<"\\", "/">> ELSE <<Head(str)>>)
           \o escapeSlashes(Tail(str))

regexPath(path) == escapeSlashes(replaceParams(path, 1))

\* new RegExp(source): the source read as a sequence of terms. A term is one
\* atom, possibly repeated by a following + . An atom is a backslash-escaped
\* character, a negated character class [^...], the dot (any character), or
\* any other character standing for itself.
RECURSIVE RegExp(_, _)
RegExp(source, i) ==
  IF i > Len(source)
    THEN <<>>
    ELSE LET c == source[i]
             close == Min({j \in (i + 1)..Len(source) :
                             source[j] = "]" /\ source[j - 1] # "\\"})
             atom ==
               CASE c = "\\" -> [kind |-> "char", chars |-> {source[i + 1]}, next |-> i + 2]
                 [] c = "[" ->
                      [kind |-> "not",
                       chars |-> {source[j] : j \in (i + 2)..(close - 1)} \ {"\\"},
                       next |-> close + 1]
                 [] c = "." -> [kind |-> "any", chars |-> {}, next |-> i + 1]
                 [] OTHER -> [kind |-> "char", chars |-> {c}, next |-> i + 1]
             plus == atom.next <= Len(source) /\ source[atom.next] = "+"
         IN <<[kind |-> atom.kind, chars |-> atom.chars, plus |-> plus]>>
              \o RegExp(source, IF plus THEN atom.next + 1 ELSE atom.next)

AtomMatches(term, ch) ==
  CASE term.kind = "char" -> ch \in term.chars
    [] term.kind = "not" -> ch \notin term.chars
    [] term.kind = "any" -> TRUE

\* regex.test(str) for the regular expression ^terms$: the terms from the
\* i-th on match str from position k to its end.
RECURSIVE test(_, _, _, _)
test(terms, i, str, k) ==
  IF i > Len(terms)
    THEN k > Len(str)
    ELSE IF terms[i].plus
      THEN \E n \in 1..(Len(str) - k + 1) :
             /\ \A m \in k..(k + n - 1) : AtomMatches(terms[i], str[m])
             /\ test(terms, i + 1, str, k + n)
      ELSE /\ k <= Len(str)
           /\ AtomMatches(terms[i], str[k])
           /\ test(terms, i + 1, str, k + 1)

\* The filter predicate of matchPath.
pathMatches(path, reqPath) == test(RegExp(regexPath(path), 1), 1, reqPath, 1)

matchPath(spec, reqPath) ==
  SelectSeq(getEndpoints(spec), LAMBDA endpoint : pathMatches(endpoint.path, reqPath))

\* A parser over a document that declares one path with one or two methods,
\* and a request path.
InitMatch ==
  /\ InitTracker
  /\ \E template \in Templates, declared \in {{"get"}, {"get", "post"}} :
       parser = <<[path |-> template, methods |-> declared]>>
  /\ requestPath \in RequestPaths
  /\ endpointList = NoEndpointList
  /\ matchResult = NoMatchResult
  /\ report = NoReport
  /\ analyzer = TRUE
  /\ loads = <<>>
  /\ lastCall = NoCall
  /\ files = <<>>
  /\ comprehensiveSummary = NoSummary

MatchPath ==
  /\ ~matchResult.called
  /\ matchResult' = [called |-> TRUE, endpoints |-> matchPath(parser, requestPath)]
  /\ UNCHANGED <<trackerVars, historyVars, parser, requestPath, endpointList, report, playswagVars>>

NextMatch == MatchPath

SpecMatch == InitMatch /\ [][NextMatch]_vars

\* The matching rule of the specification: the whole request path is the
\* template with every {identifier} replaced by one non-empty run of
\* characters other than "/", every other character being the same.
RECURSIVE TemplateMatches(_, _, _, _)
TemplateMatches(template, i, reqPath, k) ==
  IF i > Len(template)
    THEN k > Len(reqPath)
    ELSE LET closing == {j \in (i + 1)..Len(template) : template[j] = "}"}
         IN IF template[i] = "{" /\ closing # {} /\ Min(closing) > i + 1
              THEN \E n \in 1..(Len(reqPath) - k + 1) :
                     /\ \A m \in k..(k + n - 1) : reqPath[m] # "/"
                     /\ TemplateMatches(template, Min(closing) + 1, reqPath, k + n)
              ELSE /\ k <= Len(reqPath)
                   /\ reqPath[k] = template[i]
                   /\ TemplateMatches(template, i + 1, reqPath, k + 1)

\* C9: matchPath returns a declared operation if and only if the whole
\* request path equals the operation's template with every {identifier}
\* replaced by one non-empty run of characters without "/", every other
\* character of the template being equal to the character of the path.
C9_MatchIsTemplateMatch ==
  matchResult.called =>
    \A endpoint \in Elems(getEndpoints(parser)) :
      (endpoint \in Elems(matchResult.endpoints))
        <=> TemplateMatches(endpoint.path, 1, requestPath, 1)

\* --------------------------------------------------------- CoverageAnalyzer
\* Longest Observation sequence the analysis is given.
MaxObservations == 2

\* extractPath(url), as src/utils/http.ts defines it (the analyzer and the
\* tracker import the name from utils/url): the pathname of an absolute URL ("/" when it has none);
\* a URL that `new URL` rejects (a relative one) is returned whole.
extractPath(url) ==
  IF url.base = ""
    THEN url.pathname \o url.search
    ELSE IF url.pathname = <<>> THEN <<"/">> ELSE url.pathname

\* `${method} ${path}`
EndpointKey(method, path) == <<method, " ">> \o path

\* matchRequests(): per request, the first endpoint among those matchPath
\* returns whose method is the request's; index 0 when there is none.
matchRequests(spec, reqs) ==
  [i \in 1..Len(reqs) |->
     LET matchedEndpoints == matchPath(spec, extractPath(reqs[i].url))
         found == {j \in 1..Len(matchedEndpoints) :
                     matchedEndpoints[j].method = reqs[i].method}
     IN [request |-> reqs[i],
         isMatched |-> found # {},
         matchedEndpoint |->
           IF found = {} THEN <<>> ELSE <<matchedEndpoints[Min(found)]>>]]

\* A getCoveredEndpoints() that pushes every matched endpoint, seen or not.
RECURSIVE getCoveredEndpoints_noDedup(_, _, _)
getCoveredEndpoints_noDedup(matches, covered, result) ==
  IF matches = <<>>
    THEN result
    ELSE LET match == Head(matches)
         IN IF match.matchedEndpoint # <<>>
              THEN getCoveredEndpoints_noDedup(Tail(matches), covered,
                     Append(result, match.matchedEndpoint[1]))
              ELSE getCoveredEndpoints_noDedup(Tail(matches), covered, result)

\* getCoveredEndpoints(): the forEach over the matches, with the Set of keys
\* seen so far and the result array.
RECURSIVE getCoveredEndpoints(_, _, _)
\* Coverage taken from the last Observation only.
getCoveredEndpoints_latest(matches, covered, result) ==
  IF matches = <<>> \/ matches[Len(matches)].matchedEndpoint = <<>>
    THEN result
    ELSE Append(result, matches[Len(matches)].matchedEndpoint[1])

getCoveredEndpoints(matches, covered, result) ==
  IF matches = <<>>
    THEN result
    ELSE LET match == Head(matches)
         IN IF match.matchedEndpoint # <<>>
              THEN LET ep == match.matchedEndpoint[1]
                       key == EndpointKey(ep.method, ep.path)
                   IN IF key \notin covered
                        THEN getCoveredEndpoints(Tail(matches), covered \cup {key},
                                                 Append(result, ep))
                        ELSE getCoveredEndpoints(Tail(matches), covered, result)
              ELSE getCoveredEndpoints(Tail(matches), covered, result)

getUncoveredEndpoints(specEndpoints, coveredEndpoints) ==
  LET coveredKeys == {EndpointKey(ep.method, ep.path) : ep \in Elems(coveredEndpoints)}
  IN SelectSeq(specEndpoints,
               LAMBDA ep : EndpointKey(ep.method, ep.path) \notin coveredKeys)

\* getExtraEndpoints(): the keys of the unmatched requests, each once, in the
\* order of their first occurrence.
RECURSIVE getExtraEndpoints(_, _)
getExtraEndpoints(matches, extra) ==
  IF matches = <<>>
    THEN extra
    ELSE LET match == Head(matches)
             key == EndpointKey(match.request.method, extractPath(match.request.url))
         IN IF ~match.isMatched /\ key \notin Elems(extra)
              THEN getExtraEndpoints(Tail(matches), Append(extra, key))
              ELSE getExtraEndpoints(Tail(matches), extra)

\* RequestTracker.getUniqueEndpoints() of the local instance.
getUniqueEndpoints(t) ==
  {EndpointKey(requests[t][i].method, extractPath(requests[t][i].url)) :
     i \in 1..Len(requests[t])}

\* dist[key] = (dist[key] || 0) + 1 on a Record<string, number>.
Increment(dist, key) ==
  IF key \in DOMAIN dist THEN [dist EXCEPT ![key] = @ + 1]
                         ELSE dist @@ (key :> 1)

\* The status bucket counted for every request, with or without a status.
addStatus_unguarded(dist, req) == Increment(dist, req.status \div 100)

\* if (req.status) { statusDistribution[`${Math.floor(req.status / 100)}xx`]++ }:
\* the key is kept as the number floor(status / 100).
addStatus(dist, req) ==
  IF req.status # Undefined /\ req.status # 0
    THEN Increment(dist, req.status \div 100)
    ELSE dist

\* The forEach of generateRequestSummary() over the requests from index i on.
RECURSIVE countRequests(_, _, _, _)
countRequests(reqs, i, methodDistribution, statusDistribution) ==
  IF i > Len(reqs)
    THEN [methodDistribution |-> methodDistribution,
          statusDistribution |-> statusDistribution]
    ELSE countRequests(reqs, i + 1,
                       Increment(methodDistribution, reqs[i].method),
                       addStatus(statusDistribution, reqs[i]))

\* generateRequestSummary() of the analyzer of instance t.
generateRequestSummary(t, reqs) ==
  LET counts == countRequests(reqs, 1, <<>>, <<>>)
  IN [totalRequests |-> Len(reqs),
      uniqueEndpoints |-> Cardinality(getUniqueEndpoints(t)),
      methodDistribution |-> counts.methodDistribution,
      statusDistribution |-> counts.statusDistribution]

\* The division without the guard on the catalog's length.
coveragePercentage_unguarded(covered, total) ==
  [num |-> covered * 100, den |-> total]

\* specEndpoints.length > 0 ? (coveredEndpoints.length / specEndpoints.length) * 100 : 0,
\* kept as the fraction num / den.
coveragePercentage(covered, total) ==
  IF total > 0 THEN [num |-> covered * 100, den |-> total]
               ELSE [num |-> 0, den |-> 1]

\* analyze(useGlobalData) of the analyzer of instance t. The percentage is
\* kept as the fraction num / den.
analyze(t, useGlobalData) ==
  LET reqs == IF useGlobalData THEN globalStore ELSE requests[t]
      specEndpoints == getEndpoints(parser)
      matches == matchRequests(parser, reqs)
      coveredEndpoints == getCoveredEndpoints(matches, {}, <<>>)
      uncoveredEndpoints == getUncoveredEndpoints(specEndpoints, coveredEndpoints)
      extraEndpoints == getExtraEndpoints(matches, <<>>)
  IN [called |-> TRUE,
      tracker |-> t,
      useGlobalData |-> useGlobalData,
      totalEndpoints |-> Len(specEndpoints),
      coveredEndpoints |-> Len(coveredEndpoints),
      coveragePercentage |->
        coveragePercentage(Len(coveredEndpoints), Len(specEndpoints)),
      uncoveredEndpoints |-> uncoveredEndpoints,
      extraEndpoints |-> extraEndpoints,
      requestSummary |-> generateRequestSummary(t, reqs)]

\* The documents the analysis runs against: two methods on one path and a
\* parameterized path; a parameterized path declared before a literal path
\* it also matches; a document without paths.
Catalogs ==
  { << [path |-> <<"/", "a">>, methods |-> {"get", "post"}],
       [path |-> <<"/", "a", "/", "{", "i", "}">>, methods |-> {"get"}] >>,
    << [path |-> <<"/", "a", "/", "{", "i", "}">>, methods |-> {"get", "delete"}],
       [path |-> <<"/", "a", "/", "b">>, methods |-> {"get"}] >>,
    <<>> }

\* Absolute URLs, one of them with a query, and a URL relative to the
\* context's baseURL with a query.
AnalysisUrls ==
  { [base |-> "https://h", pathname |-> <<"/", "a">>, search |-> <<>>],
    [base |-> "https://h", pathname |-> <<"/", "a", "/", "b">>, search |-> <<>>],
    [base |-> "https://h", pathname |-> <<"/", "c">>, search |-> <<"?", "q">>],
    [base |-> "", pathname |-> <<"/", "c">>, search |-> <<"?", "q">>] }

\* The Observations a settled call leaves: a response with a status, or a
\* failure without one. Error statuses and failures are taken on one URL.
Observations ==
  {obs \in [method : {"GET", "POST"}, url : AnalysisUrls, timestamp : {0},
            status : Statuses \cup {Undefined}, duration : {1}] :
     obs.status # 200 => (obs.url.pathname = <<"/", "a">> /\ obs.url.base # "")}

\* Sequences of Observations, numbered from `first` on.
ObservationSeqs(n, first) ==
  {<<>>} \cup
    { [i \in 1..Len(obs) |->
         [id |-> first + i - 1, method |-> obs[i].method, url |-> obs[i].url,
          timestamp |-> obs[i].timestamp, status |-> obs[i].status,
          duration |-> obs[i].duration]] : obs \in SeqsUpTo(Observations, n) }

\* What another instance has appended to the global store.
OtherObservations ==
  {obs \in Observations :
     obs.method = "GET" /\ obs.status = 200 /\ obs.url.pathname # <<"/", "a">>}

\* Every call has settled. One instance holds a local sequence; the global
\* store is empty (cleared, or never written), or holds the local sequence
\* and at most one Observation of another instance, or (cleared in between)
\* only that of the other instance.
InitAnalyze ==
  /\ parser \in Catalogs
  /\ \E local \in ObservationSeqs(MaxObservations, 1) :
       /\ requests = [t \in Trackers |-> IF t = "t1" THEN local ELSE <<>>]
       /\ \E other \in SeqsUpTo(OtherObservations, 1) :
            LET others == [i \in 1..Len(other) |->
                             [id |-> Len(local) + i, method |-> other[i].method,
                              url |-> other[i].url, timestamp |-> other[i].timestamp,
                              status |-> other[i].status,
                              duration |-> other[i].duration]]
            IN /\ globalStore \in {<<>>, local \o others, others}
               /\ clearedGlobal = (globalStore \in {<<>>, others})
  /\ useGlobalTracking = CtorGlobalTracking
  /\ calls = <<>>
  /\ now = 1
  /\ clearedLocal = FALSE
  /\ requestPath = <<>>
  /\ endpointList = NoEndpointList
  /\ matchResult = NoMatchResult
  /\ report = NoReport
  /\ analyzer = TRUE
  /\ loads = <<>>
  /\ lastCall = NoCall
  /\ files = <<>>
  /\ comprehensiveSummary = NoSummary

\* An analyze that empties the sequence it has analysed.
Analyze_consume(t, useGlobalData) ==
  /\ report' = analyze(t, useGlobalData)
  /\ globalStore' = IF useGlobalData THEN <<>> ELSE globalStore
  /\ requests' = IF useGlobalData THEN requests ELSE [requests EXCEPT ![t] = <<>>]
  /\ UNCHANGED <<useGlobalTracking, calls, now, historyVars, parser, requestPath, endpointList,
                 matchResult, playswagVars>>

\* An analyze that, once a report exists, hands it out again for whatever
\* scope is asked for.
Analyze_cached(t, useGlobalData) ==
  /\ report' = IF report.called
                 THEN [report EXCEPT !.tracker = t, !.useGlobalData = useGlobalData]
                 ELSE analyze(t, useGlobalData)
  /\ UNCHANGED <<trackerVars, historyVars, parser, requestPath, endpointList, matchResult, playswagVars>>

\* analyzer.analyze(useGlobalData) on the analyzer of instance t.
Analyze(t, useGlobalData) ==
  /\ report' = analyze(t, useGlobalData)
  /\ UNCHANGED <<trackerVars, historyVars, parser, requestPath, endpointList, matchResult, playswagVars>>

NextAnalyze == \E t \in Trackers, useGlobalData \in BOOLEAN : Analyze(t, useGlobalData)

SpecAnalyze == InitAnalyze /\ [][NextAnalyze]_vars

\* The sequence the last analyze call selected.
Scope == IF report.useGlobalData THEN globalStore ELSE requests[report.tracker]

\* The declared operation an Observation is credited to: the first in
\* catalog order whose template matches the Observation's path and whose
\* method is the Observation's; 0 when there is none.
Credited(obs) ==
  LET endpoints == getEndpoints(parser)
      hits == {j \in 1..Len(endpoints) :
                 /\ pathMatches(endpoints[j].path, extractPath(obs.url))
                 /\ endpoints[j].method = obs.method}
  IN IF hits = {} THEN 0 ELSE Min(hits)

PathOnly(url) == IF url.pathname = <<>> THEN <<"/">> ELSE url.pathname

\* An Observation has a declared operation whose template matches its path
\* and whose method is its method.
HasDeclared(obs) ==
  \E ep \in Elems(getEndpoints(parser)) :
    pathMatches(ep.path, PathOnly(obs.url)) /\ ep.method = obs.method

\* C11: extraEndpoints holds, each once, exactly the "METHOD path" strings of
\* the Observations of the selected scope that matched no declared operation
\* (a path matched only under other methods included), the path being the
\* URL's path without scheme, host and query; no matched Observation
\* contributes an entry.
C11_ExtraEndpoints ==
  report.called =>
    /\ Elems(report.extraEndpoints) =
         {EndpointKey(Scope[i].method, PathOnly(Scope[i].url)) :
            i \in {j \in 1..Len(Scope) : ~HasDeclared(Scope[j])}}
    /\ Cardinality(Elems(report.extraEndpoints)) = Len(report.extraEndpoints)

\* C12: for either scope, the report's uniqueEndpoints is the number of
\* distinct "METHOD path" combinations among the Observations of that scope,
\* and for a non-empty scope it does not exceed totalRequests.
C12_UniqueEndpointsOfScope ==
  report.called =>
    /\ report.requestSummary.uniqueEndpoints =
         Cardinality({EndpointKey(Scope[i].method, PathOnly(Scope[i].url)) :
                        i \in 1..Len(Scope)})
    /\ Len(Scope) > 0 =>
         report.requestSummary.uniqueEndpoints <= report.requestSummary.totalRequests

\* C13: coveragePercentage is 0 when the catalog is empty, and uncovered is
\* then empty whatever was observed; otherwise it is
\* coveredEndpoints / totalEndpoints * 100. In every report
\* 0 <= coveredEndpoints <= totalEndpoints, so the percentage is in [0, 100].
C13_CoveragePercentage ==
  report.called =>
    LET pct == report.coveragePercentage
    IN /\ pct.den > 0
       /\ report.totalEndpoints = 0 =>
            (pct.num = 0 /\ report.uncoveredEndpoints = <<>>)
       /\ report.totalEndpoints > 0 =>
            pct.num * report.totalEndpoints = report.coveredEndpoints * 100 * pct.den
       /\ 0 <= report.coveredEndpoints
       /\ report.coveredEndpoints <= report.totalEndpoints
       /\ 0 <= pct.num
       /\ pct.num <= 100 * pct.den

\* An empty catalog analysed against a scope that holds Observations.
C13_Witness ==
  /\ report.called
  /\ report.totalEndpoints = 0
  /\ Len(Scope) = 2
  /\ Len(report.extraEndpoints) = 2

\* The sum of the values of a function with a finite domain.
RECURSIVE SumOf(_)
SumOf(f) ==
  IF DOMAIN f = {}
    THEN 0
    ELSE LET k == CHOOSE x \in DOMAIN f : TRUE
         IN f[k] + SumOf([x \in DOMAIN f \ {k} |-> f[x]])

\* The indices of the Observations of the scope that have a status.
WithStatus == {i \in 1..Len(Scope) : Scope[i].status # Undefined}

\* C14: methodDistribution counts every Observation of the scope, matched or
\* not, under its method, so its values sum to totalRequests;
\* statusDistribution counts under floor(status / 100) exactly the
\* Observations that have a status, so its values sum to their number, and an
\* Observation without a status adds to totalRequests but to no status key.
C14_Distributions ==
  report.called =>
    LET summary == report.requestSummary
    IN /\ summary.totalRequests = Len(Scope)
       /\ DOMAIN summary.methodDistribution = {Scope[i].method : i \in 1..Len(Scope)}
       /\ \A m \in DOMAIN summary.methodDistribution :
            summary.methodDistribution[m] =
              Cardinality({i \in 1..Len(Scope) : Scope[i].method = m})
       /\ SumOf(summary.methodDistribution) = summary.totalRequests
       /\ DOMAIN summary.statusDistribution = {Scope[i].status \div 100 : i \in WithStatus}
       /\ \A g \in DOMAIN summary.statusDistribution :
            summary.statusDistribution[g] =
              Cardinality({i \in WithStatus : Scope[i].status \div 100 = g})
       /\ SumOf(summary.statusDistribution) = Cardinality(WithStatus)

\* A scope with an Observation without a status and an unmatched Observation
\* with one.
C14_Witness ==
  /\ report.called
  /\ Len(Scope) = 2
  /\ Scope[1].status = Undefined
  /\ Scope[2].status = 200
  /\ ~HasDeclared(Scope[2])
  /\ report.requestSummary.totalRequests = 2
  /\ DOMAIN report.requestSummary.statusDistribution = {2}

\* ----------------------------------------------------------------- PlaySwag
\* Most loadSpecFromUrl calls.
MaxLoads == 1

\* The instance whose PlaySwag loads specs and generates reports
\* (PlaySwag.tracker).
Owner == "t1"

\* The documents a spec source can hold: those of the analysis, and one with
\* a template that is not a valid regular expression source.
Documents ==
  Catalogs \cup {<<[path |-> <<"/", "a", "(">>, methods |-> {"get"}]>>}

\* What readFileSync and JSON.parse make of a spec file.
FileContents ==
  {[kind |-> "missing", spec |-> <<>>], [kind |-> "unparsable", spec |-> <<>>]}
    \cup {[kind |-> "json", spec |-> doc] : doc \in Documents}

\* What fetch and response.json() make of a spec URL.
Responses ==
  {[kind |-> "unreachable", spec |-> <<>>], [kind |-> "notOk", spec |-> <<>>],
   [kind |-> "unparsable", spec |-> <<>>]}
    \cup {[kind |-> "json", spec |-> doc] : doc \in Documents}

\* A loadSpecFromFile that drops the parser before it reads the file.
loadSpecFromFile_reset(content) ==
  /\ lastCall' = [op |-> "loadSpecFromFile",
                  error |-> IF content.kind = "json" THEN "none"
                            ELSE "Failed to parse OpenAPI spec"]
  /\ parser' = content.spec
  /\ analyzer' = (content.kind = "json")
  /\ UNCHANGED <<trackerVars, historyVars, requestPath, endpointList, matchResult, report,
                 loads, files, comprehensiveSummary>>

\* loadSpecFromFile(filePath): OpenAPIParser.fromFile throws before anything
\* is assigned, or parser and analyzer are set.
loadSpecFromFile(content) ==
  /\ IF content.kind = "json"
       THEN /\ parser' = content.spec
            /\ analyzer' = TRUE
            /\ lastCall' = [op |-> "loadSpecFromFile", error |-> "none"]
       ELSE /\ lastCall' = [op |-> "loadSpecFromFile",
                            error |-> "Failed to parse OpenAPI spec"]
            /\ UNCHANGED <<parser, analyzer>>
  /\ UNCHANGED <<trackerVars, historyVars, requestPath, endpointList, matchResult, report,
                 loads, files, comprehensiveSummary>>

\* loadSpecFromUrl(url) up to its await.
loadSpecFromUrl ==
  /\ Len(loads) < MaxLoads
  /\ loads' = Append(loads, [pc |-> "await"])
  /\ UNCHANGED <<trackerVars, historyVars, parserVars, analyzer, lastCall, files, comprehensiveSummary>>

\* The continuation of loadSpecFromUrl: OpenAPIParser.fromUrl has thrown, or
\* parser and analyzer are set.
resumeLoad(i, response) ==
  /\ i \in 1..Len(loads)
  /\ loads[i].pc = "await"
  /\ IF response.kind = "json"
       THEN /\ parser' = response.spec
            /\ analyzer' = TRUE
            /\ loads' = [loads EXCEPT ![i].pc = "returned"]
            /\ lastCall' = [op |-> "loadSpecFromUrl", error |-> "none"]
       ELSE /\ loads' = [loads EXCEPT ![i].pc = "thrown"]
            /\ lastCall' = [op |-> "loadSpecFromUrl",
                            error |-> "Failed to fetch OpenAPI spec"]
            /\ UNCHANGED <<parser, analyzer>>
  /\ UNCHANGED <<trackerVars, historyVars, requestPath, endpointList, matchResult, report,
                 files, comprehensiveSummary>>

\* new RegExp(source) throws a SyntaxError: a group is opened and not closed.
InvalidRegExp(source) ==
  \E i \in 1..Len(source) :
    /\ source[i] = "("
    /\ \A j \in (i + 1)..Len(source) : source[j] # ")"

\* analyze(useGlobalData) throws: matchPath is called for a request and builds
\* the regular expression of every endpoint.
analyzeThrows(t, useGlobalData) ==
  /\ (IF useGlobalData THEN globalStore ELSE requests[t]) # <<>>
  /\ \E ep \in Elems(getEndpoints(parser)) : InvalidRegExp(regexPath(ep.path))

\* generateReport(useGlobalData): the guard on the analyzer, then
\* analyzer.analyze(useGlobalData).
generateReport(useGlobalData) ==
  /\ IF ~analyzer
       THEN /\ lastCall' = [op |-> "generateReport", error |-> "OpenAPI spec not loaded"]
            /\ UNCHANGED report
       ELSE IF analyzeThrows(Owner, useGlobalData)
         THEN /\ lastCall' = [op |-> "generateReport", error |-> "SyntaxError"]
              /\ UNCHANGED report
         ELSE /\ report' = analyze(Owner, useGlobalData)
              /\ lastCall' = [op |-> "generateReport", error |-> "none"]
  /\ UNCHANGED <<trackerVars, historyVars, parser, requestPath, endpointList, matchResult,
                 analyzer, loads, files, comprehensiveSummary>>

\* ------------------------------------------------- RequestTracker exports
\* Number.prototype.toString: the decimal digits of a natural number.
Digits == <<"0", "1", "2", "3", "4", "5", "6", "7", "8", "9">>

RECURSIVE toString(_)
toString(n) ==
  IF n < 10 THEN <<Digits[n + 1]>>
            ELSE toString(n \div 10) \o <<Digits[(n % 10) + 1]>>

\* new Date(ms).toISOString() for the first second of the epoch: the
\* milliseconds padded to three digits.
ToISOString(ms) ==
  <<"1970-01-01T00:00:00.">>
    \o (IF ms < 10 THEN <<"0", "0">> ELSE IF ms < 100 THEN <<"0">> ELSE <<>>)
    \o toString(ms) \o <<"Z">>

\* Math.round(num / den * 100) / 100 for num >= 0, den > 0, kept in hundredths.
RoundHundredths(num, den) == (2 * num * 100 + den) \div (2 * den)

\* The sequence an export or a summary is made from.
requestsToUse(t, useGlobalData) == IF useGlobalData THEN globalStore ELSE requests[t]

\* RequestTracker.getGlobalUniqueEndpoints()
getGlobalUniqueEndpoints ==
  {EndpointKey(globalStore[i].method, extractPath(globalStore[i].url)) :
     i \in 1..Len(globalStore)}

\* req.status && ... / req.duration || ... : undefined and 0 are falsy.
Truthy(n) == n # Undefined /\ n # 0

\* array.reduce((sum, req) => sum + (req.duration || 0), 0)
RECURSIVE sumDurations(_)
sumDurations(reqs) ==
  IF reqs = <<>>
    THEN 0
    ELSE (IF Truthy(Head(reqs).duration) THEN Head(reqs).duration ELSE 0)
           + sumDurations(Tail(reqs))

\* getSuccessRate(), in hundredths of a percent.
getSuccessRate(reqs) ==
  IF Len(reqs) = 0
    THEN 0
    ELSE RoundHundredths(
           Len(SelectSeq(reqs, LAMBDA req : Truthy(req.status) /\ req.status < 400)) * 100,
           Len(reqs))

\* getAverageDuration(), in hundredths of a millisecond.
getAverageDuration(reqs) ==
  IF Len(reqs) = 0 THEN 0 ELSE RoundHundredths(sumDurations(reqs), Len(reqs))

\* JSON.stringify of a RequestInfo and JSON.parse of the result: the object
\* with the properties that are not undefined.
JsonRequest(req) ==
  LET keys == {"method", "url", "timestamp"}
                \cup (IF req.status # Undefined THEN {"status"} ELSE {})
                \cup (IF req.duration # Undefined THEN {"duration"} ELSE {})
  IN [k \in keys |-> req[k]]

\* A toJson whose requests array leaves out the requests without a status.
toJson_settledOnly(t, useGlobalData) ==
  LET reqs == requestsToUse(t, useGlobalData)
      kept == SelectSeq(reqs, LAMBDA req : req.status # Undefined)
  IN [summary |-> [totalRequests |-> Len(reqs),
                   uniqueEndpoints |-> 0,
                   successRate |-> getSuccessRate(reqs),
                   averageDuration |-> getAverageDuration(reqs),
                   timestamp |-> ToISOString(now)],
      requests |-> [i \in 1..Len(kept) |-> JsonRequest(kept[i])]]

\* toJson(useGlobalData): the document JSON.stringify writes, as JSON.parse
\* reads it back.
toJson(t, useGlobalData) ==
  LET reqs == requestsToUse(t, useGlobalData)
      uniqueEndpoints == IF useGlobalData THEN getGlobalUniqueEndpoints
                                          ELSE getUniqueEndpoints(t)
  IN [summary |-> [totalRequests |-> Len(reqs),
                   uniqueEndpoints |-> Cardinality(uniqueEndpoints),
                   successRate |-> getSuccessRate(reqs),
                   averageDuration |-> getAverageDuration(reqs),
                   timestamp |-> ToISOString(now)],
      requests |-> [i \in 1..Len(reqs) |-> JsonRequest(reqs[i])]]

\* `${value}` in a template literal, for a number that may be undefined.
Interpolate(n) == IF n = Undefined THEN <<"undefined">> ELSE toString(n)

\* isFailure of toJunitXml, without the guard on a missing status.
isFailure_unguarded(req) == req.status = Undefined \/ req.status >= 400

\* const isFailure = req.status && req.status >= 400
isFailure(req) == Truthy(req.status) /\ req.status >= 400

\* toJunitXml(suiteName, useGlobalData): the testsuite element with its
\* attributes and one testcase per request, each with the failure elements
\* nested in it. Times are seconds, kept as milliseconds over 1000.
toJunitXml(t, suiteName, useGlobalData) ==
  LET reqs == requestsToUse(t, useGlobalData)
      totalTests == Len(reqs)
      failures == Len(SelectSeq(reqs, LAMBDA req : Truthy(req.status) /\ req.status >= 400))
      totalTime == [num |-> sumDurations(reqs), den |-> 1000]
  IN [declaration |-> "<?xml version=\"1.0\" encoding=\"UTF-8\"?>",
      testsuite |->
        [name |-> suiteName,
         tests |-> toString(totalTests),
         failures |-> toString(failures),
         time |-> totalTime,
         testcases |->
           [i \in 1..Len(reqs) |->
              LET req == reqs[i] IN
              [name |-> EndpointKey(req.method, extractPath(req.url)),
               time |-> [num |-> IF Truthy(req.duration) THEN req.duration ELSE 0,
                         den |-> 1000],
               classname |-> <<"API.", req.method>>,
               failure |->
                 IF isFailure(req)
                   THEN <<[message |-> <<"HTTP ">> \o Interpolate(req.status),
                           type |-> "HttpError"]>>
                   ELSE <<>>]]]]

\* `req.status || 'N/A'` and `req.duration || 'N/A'` as row.join(',') renders
\* them.
OrNA(n) == IF Truthy(n) THEN toString(n) ELSE <<"N/A">>

\* toCsv(includeHeaders, useGlobalData): the lines of the file, each line
\* the cells that join(',') puts together.
toCsv(t, includeHeaders, useGlobalData) ==
  LET reqs == requestsToUse(t, useGlobalData)
      headers == <<"Method", "URL", "Status", "Duration(ms)", "Timestamp">>
  IN (IF includeHeaders THEN <<headers>> ELSE <<>>)
       \o [i \in 1..Len(reqs) |->
             <<reqs[i].method,
               <<"\"", reqs[i].url, "\"">>,
               OrNA(reqs[i].status),
               OrNA(reqs[i].duration),
               ToISOString(reqs[i].timestamp)>>]

\* ------------------------------------------------------- SummaryGenerator
Max(S) == CHOOSE x \in S : \A y \in S : x >= y

\* Math.round(num / den) for num >= 0, den > 0.
Round(num, den) == (2 * num + den) \div (2 * den)

\* `${req.method.toUpperCase()} ${req.url}`
UsageKey(req) == <<ToUpperCase(req.method), " ", req.url>>

\* The else branch of calculateEndpointUsage: the entry set for a new key.
newUsage(req) ==
  [endpoint |-> UsageKey(req),
   callCount |-> 1,
   totalDuration |-> IF Truthy(req.duration) THEN req.duration ELSE 0,
   averageDuration |-> [num |-> IF Truthy(req.duration) THEN req.duration ELSE 0,
                        den |-> 1],
   statusCodes |-> IF Truthy(req.status) THEN {req.status} ELSE {},
   firstCalled |-> req.timestamp,
   lastCalled |-> req.timestamp]

\* The branch of calculateEndpointUsage for a key that has an entry; the
\* average is kept as the fraction totalDuration / callCount.
updateUsage(existing, req) ==
  LET totalDuration ==
        existing.totalDuration + (IF Truthy(req.duration) THEN req.duration ELSE 0)
  IN [existing EXCEPT
        !.callCount = @ + 1,
        !.totalDuration = totalDuration,
        !.averageDuration = [num |-> totalDuration, den |-> existing.callCount + 1],
        !.statusCodes = IF Truthy(req.status) THEN @ \cup {req.status} ELSE @,
        !.lastCalled = IF req.timestamp > @ THEN req.timestamp ELSE @]

\* calculateEndpointUsage(requests): the forEach over the requests with the
\* Map of usages, whose values come out in insertion order.
RECURSIVE calculateEndpointUsage(_, _)
calculateEndpointUsage(reqs, endpointUsage) ==
  IF reqs = <<>>
    THEN endpointUsage
    ELSE LET req == Head(reqs)
             at == {i \in 1..Len(endpointUsage) : endpointUsage[i].endpoint = UsageKey(req)}
         IN IF at # {}
              THEN calculateEndpointUsage(Tail(reqs),
                     [endpointUsage EXCEPT
                        ![Min(at)] = updateUsage(endpointUsage[Min(at)], req)])
              ELSE calculateEndpointUsage(Tail(reqs), Append(endpointUsage, newUsage(req)))

\* values.slice().sort((a, b) => a - b)
RECURSIVE sortAscending(_)
sortAscending(values) ==
  IF values = <<>>
    THEN <<>>
    ELSE LET sorted == sortAscending(Tail(values))
         IN SelectSeq(sorted, LAMBDA v : v < Head(values))
              \o <<Head(values)>>
              \o SelectSeq(sorted, LAMBDA v : v >= Head(values))

\* calculatePercentile(values, percentile): sorted[index] || 0 with
\* index = Math.ceil(percentile / 100 * length) - 1; the values are integers.
calculatePercentile(values, percentile) ==
  LET sorted == sortAscending(values)
      index == ((percentile * Len(sorted) + 99) \div 100) - 1
  IN IF index >= 0 /\ index < Len(sorted) THEN sorted[index + 1] ELSE 0

\* PerformanceAnalyzer.analyzePerformance(requests); null is the record that
\* is not defined.
analyzePerformance(reqs) ==
  LET kept == SelectSeq(reqs, LAMBDA r : Truthy(r.duration))
      durations == [i \in 1..Len(kept) |-> kept[i].duration]
  IN IF Len(durations) = 0
       THEN [defined |-> FALSE]
       ELSE [defined |-> TRUE,
             averageResponseTime |-> Round(sumDurations(kept), Len(durations)),
             minResponseTime |-> Min(Elems(durations)),
             maxResponseTime |-> Max(Elems(durations)),
             p95ResponseTime |-> calculatePercentile(durations, 95),
             p99ResponseTime |-> calculatePercentile(durations, 99)]

\* groupBy(errors, r => r.status.toString()): the count per status.
RECURSIVE groupBy(_, _)
groupBy(errors, groups) ==
  IF errors = <<>>
    THEN groups
    ELSE groupBy(Tail(errors), Increment(groups, Head(errors).status))

\* Object.entries(errorsByStatus) sorted by descending count and cut to five:
\* the entries come in ascending status order and the sort is stable.
RECURSIVE mostCommonErrors(_, _, _)
mostCommonErrors(errorsByStatus, totalErrors, n) ==
  IF DOMAIN errorsByStatus = {} \/ n = 0
    THEN <<>>
    ELSE LET top == Max({errorsByStatus[st] : st \in DOMAIN errorsByStatus})
             status == Min({st \in DOMAIN errorsByStatus : errorsByStatus[st] = top})
         IN <<[status |-> status, count |-> top,
               percentage |-> RoundHundredths(top * 100, totalErrors)]>>
              \o mostCommonErrors(
                   [st \in DOMAIN errorsByStatus \ {status} |-> errorsByStatus[st]],
                   totalErrors, n - 1)

\* ErrorAnalyzer.analyzeErrors(requests); the rate is in hundredths of a
\* percent.
analyzeErrors(reqs) ==
  LET errors == SelectSeq(reqs, LAMBDA r : Truthy(r.status) /\ r.status >= 400)
      errorsByStatus == groupBy(errors, <<>>)
  IN [totalErrors |-> Len(errors),
      errorRate |-> IF Len(reqs) > 0 THEN RoundHundredths(Len(errors) * 100, Len(reqs))
                                     ELSE 0,
      errorsByStatus |-> errorsByStatus,
      mostCommonErrors |-> mostCommonErrors(errorsByStatus, Len(errors), 5)]

\* ep.tags?.includes('admin') || ep.tags?.includes('Admin')
adminTagged(ep) ==
  /\ "tags" \in DOMAIN ep
  /\ \E i \in 1..Len(ep.tags) : ep.tags[i] \in {"admin", "Admin"}

\* RecommendationEngine.generateRecommendations(coverageReport, errorAnalysis):
\* the messages pushed, each kept as its rule and the number it mentions.
generateRecommendations(coverageReport, errorAnalysis) ==
  LET pct == coverageReport.coveragePercentage
      criticalUncovered ==
        SelectSeq(coverageReport.uncoveredEndpoints,
                  LAMBDA ep : ep.method = "POST" \/ ep.method = "PUT" \/ ep.method = "DELETE")
      adminUncovered == SelectSeq(coverageReport.uncoveredEndpoints, adminTagged)
  IN <<[rule |-> IF pct.num < 50 * pct.den THEN "Low API coverage detected"
                 ELSE IF pct.num < 80 * pct.den THEN "Good coverage achieved"
                 ELSE "Excellent coverage",
        count |-> 0]>>
       \o (IF errorAnalysis.errorRate > 10 * 100
             THEN <<[rule |-> "High error rate", count |-> errorAnalysis.errorRate]>>
             ELSE <<>>)
       \o (IF Len(coverageReport.extraEndpoints) > 0
             THEN <<[rule |-> "endpoints are not documented in OpenAPI spec",
                     count |-> Len(coverageReport.extraEndpoints)]>>
             ELSE <<>>)
       \o (IF Len(criticalUncovered) > 0
             THEN <<[rule |-> "critical endpoints (POST/PUT/DELETE) are untested",
                     count |-> Len(criticalUncovered)]>>
             ELSE <<>>)
       \o (IF Len(adminUncovered) > 0
             THEN <<[rule |-> "admin endpoints are untested",
                     count |-> Len(adminUncovered)]>>
             ELSE <<>>)

\* SummaryGenerator.generateComprehensiveSummary(tracker, analyzer,
\* useGlobalData) for the tracker and the analyzer of instance t. The session
\* duration is in seconds.
summarize(t, useGlobalData) ==
  LET coverage == analyze(t, useGlobalData)
      reqs == requestsToUse(t, useGlobalData)
      timestamps == {reqs[i].timestamp : i \in 1..Len(reqs)}
      errorAnalysis == analyzeErrors(reqs)
  IN [called |-> TRUE,
      useGlobalData |-> useGlobalData,
      metadata |->
        [generatedAt |-> ToISOString(now),
         generatedBy |-> "PlaySwag",
         version |-> "1.0.0",
         sessionDuration |->
           IF Len(reqs) > 0 THEN Round(Max(timestamps) - Min(timestamps), 1000) ELSE 0],
      coverage |-> coverage,
      requestSummary |->
        [totalRequests |-> Len(reqs),
         uniqueEndpoints |-> Cardinality(getUniqueEndpoints(t)),
         timeRange |->
           IF Len(reqs) > 0
             THEN <<[start |-> ToISOString(Min(timestamps)),
                     end |-> ToISOString(Max(timestamps))]>>
             ELSE <<>>,
         methodDistribution |-> coverage.requestSummary.methodDistribution,
         statusDistribution |-> coverage.requestSummary.statusDistribution],
      endpointUsage |-> calculateEndpointUsage(reqs, <<>>),
      performanceMetrics |-> analyzePerformance(reqs),
      errorAnalysis |-> errorAnalysis,
      recommendations |-> generateRecommendations(coverage, errorAnalysis)]

\* PlaySwag.generateComprehensiveSummary(useGlobalData): the guard on the
\* analyzer, then the summary, whose first step is analyzer.analyze.
generateComprehensiveSummary(useGlobalData) ==
  /\ IF ~analyzer
       THEN /\ lastCall' = [op |-> "generateComprehensiveSummary",
                            error |-> "OpenAPI spec not loaded"]
            /\ UNCHANGED <<report, comprehensiveSummary>>
       ELSE IF analyzeThrows(Owner, useGlobalData)
         THEN /\ lastCall' = [op |-> "generateComprehensiveSummary", error |-> "SyntaxError"]
              /\ UNCHANGED <<report, comprehensiveSummary>>
         ELSE /\ report' = analyze(Owner, useGlobalData)
              /\ comprehensiveSummary' = summarize(Owner, useGlobalData)
              /\ lastCall' = [op |-> "generateComprehensiveSummary", error |-> "none"]
  /\ UNCHANGED <<trackerVars, historyVars, parser, requestPath, endpointList, matchResult,
                 analyzer, loads, files>>

\* options.format of exportResults; "xml" is not a supported format.
ExportFormats == {"junit", "json", "csv", "xml"}

\* options.filePath of exportResults.
FilePaths == {"out"}

\* An exportResults that creates the file before it looks at the format.
exportResults_touch(t, format, includeHeaders, filePath, useGlobalData) ==
  /\ files' = (filePath :> [format |-> format, includeHeaders |-> includeHeaders,
                             requests |-> <<>>, content |-> <<>>]) @@ files
  /\ lastCall' = [op |-> "exportResults",
                  error |-> IF format \in {"junit", "json", "csv"} THEN "none"
                            ELSE "Unsupported export format"]
  /\ UNCHANGED <<trackerVars, historyVars, parserVars, analyzer, loads, comprehensiveSummary>>

\* exportResults(options, useGlobalData): the switch on the format, whose
\* default branch throws, then writeFileSync(options.filePath, content). The
\* file is kept with its content and with the options and the requests it
\* was made from; options.includeHeaders is true unless it is given as false.
exportResults(t, format, includeHeaders, filePath, useGlobalData) ==
  /\ IF format \in {"junit", "json", "csv"}
       THEN /\ files' =
                 (filePath :>
                    [format |-> format,
                     includeHeaders |-> includeHeaders,
                     requests |-> requestsToUse(t, useGlobalData),
                     content |->
                       CASE format = "junit" -> toJunitXml(t, "API Tests", useGlobalData)
                         [] format = "json" -> toJson(t, useGlobalData)
                         [] format = "csv" -> toCsv(t, includeHeaders, useGlobalData)])
                   @@ files
            /\ lastCall' = [op |-> "exportResults", error |-> "none"]
       ELSE /\ lastCall' = [op |-> "exportResults",
                            error |-> "Unsupported export format"]
            /\ UNCHANGED files
  /\ UNCHANGED <<trackerVars, historyVars, parserVars, analyzer, loads, comprehensiveSummary>>

\* The stores the PlaySwag operations run against: the owner has recorded at
\* most one Observation, a GET, which the global store holds or not.
InitStores ==
  /\ \E local \in {obs \in ObservationSeqs(1, 1) :
                      \A i \in 1..Len(obs) : obs[i].method = "GET"} :
       /\ requests = [t \in Trackers |-> IF t = Owner THEN local ELSE <<>>]
       /\ globalStore \in {<<>>, local}
       /\ clearedGlobal = (globalStore # local)
  /\ useGlobalTracking = CtorGlobalTracking
  /\ calls = <<>>
  /\ now = 1
  /\ clearedLocal = FALSE

InitLoad ==
  /\ InitStores
  /\ parser = <<>>
  /\ requestPath = <<>>
  /\ endpointList = NoEndpointList
  /\ matchResult = NoMatchResult
  /\ report = NoReport
  /\ InitPlaySwag

NextLoad ==
  \/ \E content \in FileContents : loadSpecFromFile(content)
  \/ loadSpecFromUrl
  \/ \E i \in 1..MaxLoads, response \in Responses : resumeLoad(i, response)
  \/ \E useGlobalData \in BOOLEAN : generateReport(useGlobalData)
  \/ \E useGlobalData \in BOOLEAN : generateComprehensiveSummary(useGlobalData)

SpecLoad == InitLoad /\ [][NextLoad]_vars

\* The last call was a report request.
ReportRequested == lastCall.op \in {"generateReport", "generateComprehensiveSummary"}

\* C15: a report request on an instance without a spec fails with the
\* spec-not-loaded error, and this is the only failure: with a spec attached
\* the request succeeds, an empty spec and an empty scope giving a
\* zero-valued report.
C15_OnlySpecNotLoaded ==
  ReportRequested =>
    /\ ~analyzer => lastCall.error = "OpenAPI spec not loaded"
    /\ analyzer =>
         /\ lastCall.error = "none"
         /\ report.called
         /\ parser = <<>> =>
              /\ report.totalEndpoints = 0
              /\ report.coveredEndpoints = 0
              /\ report.coveragePercentage.num = 0
              /\ report.uncoveredEndpoints = <<>>
         /\ Scope = <<>> =>
              /\ report.coveredEndpoints = 0
              /\ report.extraEndpoints = <<>>
              /\ report.requestSummary.totalRequests = 0

\* C16: a loadSpecFromFile or loadSpecFromUrl that fails surfaces the failure
\* and leaves the catalog as it was, absent or the one loaded before, and the
\* local and global sequences unchanged.
C16_FailedLoadKeepsCatalog ==
  [][
      /\ (\E content \in FileContents : content.kind # "json" /\ loadSpecFromFile(content))
           => /\ lastCall'.op = "loadSpecFromFile"
              /\ lastCall'.error # "none"
              /\ UNCHANGED <<parser, analyzer, report, requests, globalStore>>
      /\ (\E i \in 1..MaxLoads, response \in Responses :
            response.kind # "json" /\ resumeLoad(i, response))
           => /\ lastCall'.op = "loadSpecFromUrl"
              /\ lastCall'.error # "none"
              /\ UNCHANGED <<parser, analyzer, report, requests, globalStore>>
  ]_vars

\* A load from a URL has failed on an instance that had loaded a catalog
\* before, and a report has been made with that catalog since.
C16_Witness ==
  /\ Len(loads) = 1
  /\ loads[1].pc = "thrown"
  /\ analyzer
  /\ parser # <<>>
  /\ lastCall = [op |-> "generateReport", error |-> "none"]
  /\ report.called
  /\ report.totalEndpoints = Len(getEndpoints(parser))

EndpointPaths == {<<"/", "a">>, <<"/", "a", "/", "{", "i", "}">>}

PathItemKeys == {"get", "post", "delete", "trace", "parameters"}

\* A path item: a path of the paths object with the keys its value has. The
\* code looks keys up by name, so their order in the document is not kept.
PathItems == [path : EndpointPaths, methods : SUBSET PathItemKeys]

\* The documents: without `paths`, or with a paths object, whose keys are
\* distinct, of at most two paths in either order.
EndpointDocuments ==
  {[hasPaths |-> FALSE, paths |-> <<>>], [hasPaths |-> TRUE, paths |-> <<>>]}
    \cup {[hasPaths |-> TRUE, paths |-> <<item>>] : item \in PathItems}
    \cup {[hasPaths |-> TRUE, paths |-> <<pair[1], pair[2]>>] :
            pair \in {pr \in PathItems \X PathItems : pr[1].path # pr[2].path}}

\* getEndpoints() of a parser over the document: the early return when the
\* document has no paths, then the loops.
endpointsOf(document) ==
  IF ~document.hasPaths THEN <<>> ELSE getEndpoints(document.paths)

\* new OpenAPIParser(document).getEndpoints()
GetEndpoints(document) ==
  /\ ~endpointList.called
  /\ parser' = document.paths
  /\ endpointList' = [called |-> TRUE, document |-> document,
                      result |-> endpointsOf(document)]
  /\ UNCHANGED <<trackerVars, historyVars, requestPath, matchResult, report, playswagVars>>

NextEndpoints == \E document \in EndpointDocuments : GetEndpoints(document)

SpecEndpoints == Init /\ [][NextEndpoints]_vars

\* The fixed method order of the claim, as document keys and as methods.
KeyOrder == <<"get", "post", "put", "patch", "delete", "head", "options">>
MethodOrder == <<"GET", "POST", "PUT", "PATCH", "DELETE", "HEAD", "OPTIONS">>

\* The position of a method in the fixed order, of a path in the document.
Rank(method) == CHOOSE r \in 1..7 : MethodOrder[r] = method
PathIndex(paths, path) == CHOOSE p \in 1..Len(paths) : paths[p].path = path

\* C18: getEndpoints returns the declared operations in document order of
\* the paths and, within a path, in the order GET, POST, PUT, PATCH, DELETE,
\* HEAD, OPTIONS; only these seven keys yield operations, each (method, path)
\* appears at most once, and a document without paths yields the empty
\* sequence.
C18_EndpointOrder ==
  endpointList.called =>
    LET paths == endpointList.document.paths
        result == endpointList.result
    IN /\ ~endpointList.document.hasPaths => result = <<>>
       /\ \A i \in 1..Len(result) :
            \E p \in 1..Len(paths), r \in 1..7 :
              /\ result[i] = [path |-> paths[p].path, method |-> MethodOrder[r]]
              /\ KeyOrder[r] \in paths[p].methods
       /\ \A p \in 1..Len(paths), r \in 1..7 :
            KeyOrder[r] \in paths[p].methods =>
              \E i \in 1..Len(result) :
                result[i] = [path |-> paths[p].path, method |-> MethodOrder[r]]
       /\ \A i, j \in 1..Len(result) :
            i < j =>
              \/ PathIndex(paths, result[i].path) < PathIndex(paths, result[j].path)
              \/ /\ result[i].path = result[j].path
                 /\ Rank(result[i].method) < Rank(result[j].method)

\* A document of two paths whose first item has the keys delete, get and
\* trace and whose second has post: GET, DELETE of the first, then POST.
C18_Witness ==
  /\ endpointList.called
  /\ Len(endpointList.document.paths) = 2
  /\ endpointList.document.paths[1].methods = {"delete", "get", "trace"}
  /\ endpointList.document.paths[2].methods = {"post", "parameters"}
  /\ Len(endpointList.result) = 3
  /\ endpointList.result[1].method = "GET"
  /\ endpointList.result[2].method = "DELETE"
  /\ endpointList.result[3].method = "POST"

\* C19: matchPath returns every declared operation, of any method, whose
\* template matches the path, in catalog order, and the empty sequence when
\* no template matches.
C19_AllMatchingInOrder ==
  matchResult.called =>
    /\ matchResult.endpoints =
         SelectSeq(getEndpoints(parser),
                   LAMBDA ep : TemplateMatches(ep.path, 1, requestPath, 1))
    /\ (\A ep \in Elems(getEndpoints(parser)) :
          ~TemplateMatches(ep.path, 1, requestPath, 1))
         => matchResult.endpoints = <<>>

\* C20: exportResults with a format other than json, csv or junit fails with
\* the unsupported-export-format error, writes no file, and leaves the local
\* and global sequences unchanged.
C20_UnsupportedFormat ==
  [][
      (\E t \in Trackers, format \in ExportFormats \ {"json", "csv", "junit"},
          includeHeaders \in BOOLEAN, filePath \in FilePaths, useGlobalData \in BOOLEAN :
            exportResults(t, format, includeHeaders, filePath, useGlobalData))
        => /\ lastCall' = [op |-> "exportResults", error |-> "Unsupported export format"]
           /\ UNCHANGED <<files, requests, globalStore>>
  ]_vars

\* An export in an unsupported format has failed after a CSV export of a
\* non-empty sequence to the same path, whose file is still there.
C20_Witness ==
  /\ lastCall = [op |-> "exportResults", error |-> "Unsupported export format"]
  /\ DOMAIN files = {"out"}
  /\ files["out"].format = "csv"
  /\ files["out"].requests # <<>>
  /\ files["out"].requests = requests[Owner]

\* ------------------------------------------------------ exports of a scope
\* The Observations the exported sequences hold: a response with a success
\* or an error status, or a failure without a status, settled within the
\* millisecond of the call or a millisecond later.
ExportObservations ==
  {obs \in [method : {"GET", "POST"},
            url : {[base |-> "https://h", pathname |-> <<"/", "a">>, search |-> <<>>]},
            timestamp : {0}, status : Statuses \cup {Undefined}, duration : Latencies] :
     obs.method = "POST" => (obs.status = 200 /\ obs.duration = 1)}

\* The Observation another instance has appended to the global store.
ExportOther ==
  [method |-> "GET",
   url |-> [base |-> "https://h", pathname |-> <<"/", "a", "/", "b">>, search |-> <<>>],
   timestamp |-> 0, status |-> 200, duration |-> 1]

\* The sequences of Observations over S of length at most n, numbered from
\* `first` on.
NumberedSeqs(S, n, first) ==
  {<<>>} \cup
    { [i \in 1..Len(obs) |->
         [id |-> first + i - 1, method |-> obs[i].method, url |-> obs[i].url,
          timestamp |-> obs[i].timestamp, status |-> obs[i].status,
          duration |-> obs[i].duration]] : obs \in SeqsUpTo(S, n) }

\* Every call has settled: instance t1 holds a local sequence; the global
\* store holds it, with or without an Observation of another instance, or
\* has been cleared since.
InitExport ==
  /\ \E local \in NumberedSeqs(ExportObservations, MaxObservations, 1) :
       /\ requests = [t \in Trackers |-> IF t = "t1" THEN local ELSE <<>>]
       /\ \E others \in NumberedSeqs({ExportOther}, 1, Len(local) + 1) :
            /\ globalStore \in {<<>>, local \o others, others}
            /\ clearedGlobal = (globalStore \in {<<>>, others})
  /\ useGlobalTracking = CtorGlobalTracking
  /\ calls = <<>>
  /\ now = 1
  /\ clearedLocal = FALSE
  /\ parser = <<>>
  /\ requestPath = <<>>
  /\ endpointList = NoEndpointList
  /\ matchResult = NoMatchResult
  /\ report = NoReport
  /\ InitPlaySwag

NextExport ==
  \E t \in Trackers, format \in ExportFormats, includeHeaders \in BOOLEAN,
     filePath \in FilePaths, useGlobalData \in BOOLEAN :
    exportResults(t, format, includeHeaders, filePath, useGlobalData)

SpecExport == InitExport /\ [][NextExport]_vars

\* C21: the document a JSON export writes, parsed again, has a requests
\* array of exactly summary.totalRequests elements, which is the length of
\* the selected sequence at export time, and its elements are the
\* Observations of that sequence in sequence order.
C21_JsonRoundTrip ==
  \A filePath \in DOMAIN files :
    files[filePath].format = "json" =>
      LET document == files[filePath].content
          selected == files[filePath].requests
      IN /\ Len(document.requests) = document.summary.totalRequests
         /\ document.summary.totalRequests = Len(selected)
         /\ \A i \in 1..Len(selected) :
              /\ document.requests[i].method = selected[i].method
              /\ document.requests[i].url = selected[i].url
              /\ document.requests[i].timestamp = selected[i].timestamp
              /\ ("status" \in DOMAIN document.requests[i]) <=> selected[i].status # Undefined
              /\ selected[i].status # Undefined =>
                   document.requests[i].status = selected[i].status
              /\ document.requests[i].duration = selected[i].duration

\* A JSON export of the global store, which holds an Observation without a
\* status and one of another instance.
C21_Witness ==
  /\ "out" \in DOMAIN files
  /\ files["out"].format = "json"
  /\ files["out"].requests = globalStore
  /\ Len(globalStore) = 2
  /\ globalStore[1].status = Undefined
  /\ globalStore # requests["t1"]
  /\ files["out"].content.summary.totalRequests = 2

\* The Observations of a sequence whose status is 400 or more.
Failed(selected) ==
  {i \in 1..Len(selected) : selected[i].status # Undefined /\ selected[i].status >= 400}

\* C22: in a JUnit export the tests attribute is the number of Observations
\* of the scope, the failures attribute the number of those with a status of
\* 400 or more; there is one testcase per Observation, in sequence order, and
\* a failure element is nested in a testcase exactly when its Observation has
\* a status of 400 or more (never for an Observation without a status), so
\* the failure elements are as many as the failures attribute says.
C22_JunitCounts ==
  \A filePath \in DOMAIN files :
    files[filePath].format = "junit" =>
      LET testsuite == files[filePath].content.testsuite
          selected == files[filePath].requests
          nested == {i \in 1..Len(testsuite.testcases) :
                       testsuite.testcases[i].failure # <<>>}
      IN /\ testsuite.tests = toString(Len(selected))
         /\ testsuite.failures = toString(Cardinality(Failed(selected)))
         /\ Len(testsuite.testcases) = Len(selected)
         /\ \A i \in 1..Len(selected) :
              /\ testsuite.testcases[i].name =
                   EndpointKey(selected[i].method, PathOnly(selected[i].url))
              /\ testsuite.testcases[i].classname = <<"API.", selected[i].method>>
              /\ Len(testsuite.testcases[i].failure) <= 1
         /\ nested = Failed(selected)
         /\ toString(Cardinality(nested)) = testsuite.failures

\* A JUnit export of a sequence with an error response, a failure without a
\* status and a success.
C22_Witness ==
  /\ "out" \in DOMAIN files
  /\ files["out"].format = "junit"
  /\ files["out"].requests = globalStore
  /\ Len(globalStore) = 3
  /\ globalStore[1].status = 404
  /\ globalStore[2].status = Undefined
  /\ globalStore[3].status = 200
  /\ files["out"].content.testsuite.failures = <<"1">>
  /\ files["out"].content.testsuite.tests = <<"3">>

\* C23: a CSV export has one row per Observation of the selected scope, in
\* sequence order, after the header row Method,URL,Status,Duration(ms),Timestamp
\* unless headers are disabled; the Status cell is N/A exactly when the
\* Observation has no status and the Duration cell is N/A exactly when it has
\* no duration, and otherwise the cell is the recorded value.
C23_CsvRows ==
  \A filePath \in DOMAIN files :
    files[filePath].format = "csv" =>
      LET lines == files[filePath].content
          selected == files[filePath].requests
          offset == IF files[filePath].includeHeaders THEN 1 ELSE 0
      IN /\ Len(lines) = Len(selected) + offset
         /\ files[filePath].includeHeaders =>
              lines[1] = <<"Method", "URL", "Status", "Duration(ms)", "Timestamp">>
         /\ \A i \in 1..Len(selected) :
              LET row == lines[i + offset] IN
              /\ row[1] = selected[i].method
              /\ row[2] = <<"\"", selected[i].url, "\"">>
              /\ (row[3] = <<"N/A">>) <=> (selected[i].status = Undefined)
              /\ selected[i].status # Undefined => row[3] = toString(selected[i].status)
              /\ (row[4] = <<"N/A">>) <=> (selected[i].duration = Undefined)
              /\ selected[i].duration # Undefined => row[4] = toString(selected[i].duration)

\* --------------------------------------------- summaries of a scope
\* The documents the summaries are made against: GET and PATCH on one path;
\* GET and an admin-tagged POST on one path, with a DELETE tagged otherwise
\* on another; a document without paths.
SummaryCatalogs ==
  { << [path |-> <<"/", "a">>, methods |-> {"get", "patch"}] >>,
    << [path |-> <<"/", "a">>, methods |-> {"get", "post"},
        tags |-> [post |-> <<"users", "admin">>]],
       [path |-> <<"/", "a", "/", "b">>, methods |-> {"delete"},
        tags |-> [delete |-> <<"users">>]] >>,
    <<>> }

\* The Observations the summarized sequences hold. GET /a is observed at
\* either start time with a duration of 0, 1 or 2 ms; the error response and
\* the failure are taken with one start time and one duration each; POST /a
\* and DELETE /a/b are observed once, and so is an undeclared path.
SummaryObservations ==
  {obs \in [method : {"GET", "POST", "DELETE"},
            url : {[base |-> "https://h", pathname |-> <<"/", "a">>, search |-> <<>>],
                   [base |-> "https://h", pathname |-> <<"/", "a", "/", "b">>, search |-> <<>>],
                   [base |-> "https://h", pathname |-> <<"/", "c">>, search |-> <<>>]},
            timestamp : {0, 1}, status : Statuses \cup {Undefined}, duration : {0, 1, 2}] :
     /\ obs.url.pathname = <<"/", "a", "/", "b">> => obs.method = "DELETE"
     /\ obs.method = "DELETE" => obs.url.pathname = <<"/", "a", "/", "b">>
     /\ obs.method = "POST" => obs.url.pathname = <<"/", "a">>
     /\ (obs.method # "GET" \/ obs.url.pathname = <<"/", "c">>) =>
          (obs.timestamp = 1 /\ obs.status = 200 /\ obs.duration = 1)
     /\ obs.status = 404 => (obs.timestamp = 0 /\ obs.duration = 0)
     /\ obs.status = Undefined => (obs.timestamp = 1 /\ obs.duration = 2)}

\* Every call has settled: the owner holds a local sequence, in the order in
\* which its calls settled; the global store holds it, with or without an
\* Observation of another instance, or has been cleared since.
InitSummary ==
  /\ parser \in SummaryCatalogs
  /\ \E local \in NumberedSeqs(SummaryObservations, MaxObservations, 1) :
       /\ requests = [t \in Trackers |-> IF t = Owner THEN local ELSE <<>>]
       /\ \E others \in NumberedSeqs({ExportOther}, 1, Len(local) + 1) :
            /\ globalStore \in {<<>>, local \o others, others}
            /\ clearedGlobal = (globalStore \in {<<>>, others})
  /\ useGlobalTracking = CtorGlobalTracking
  /\ calls = <<>>
  /\ now = 2
  /\ clearedLocal = FALSE
  /\ requestPath = <<>>
  /\ endpointList = NoEndpointList
  /\ matchResult = NoMatchResult
  /\ report = NoReport
  /\ analyzer = TRUE
  /\ loads = <<>>
  /\ lastCall = NoCall
  /\ files = <<>>
  /\ comprehensiveSummary = NoSummary

NextSummary == \E useGlobalData \in BOOLEAN : generateComprehensiveSummary(useGlobalData)

SpecSummary == InitSummary /\ [][NextSummary]_vars

\* The sequence the last summary was made from.
SummaryScope == requestsToUse(Owner, comprehensiveSummary.useGlobalData)

\* The durations of the Observations of the scope that carry one.
CarriedDurations ==
  LET carrying == SelectSeq(SummaryScope, LAMBDA r : r.duration # Undefined)
  IN [i \in 1..Len(carrying) |-> carrying[i].duration]

\* The nearest-rank percentile: the element of the ascending values at index
\* ceil(p / 100 * n) - 1, the index clamped to [0, n - 1].
NearestRank(values, p) ==
  LET n == Len(values)
      rank == ((p * n + 99) \div 100) - 1
      clamped == IF rank < 0 THEN 0 ELSE IF rank > n - 1 THEN n - 1 ELSE rank
  IN sortAscending(values)[clamped + 1]

\* C25: the performance metrics are undefined exactly when no Observation of
\* the scope carries a duration; when defined, p95 and p99 are the
\* nearest-rank percentiles of the durations of all the Observations that
\* carry one, and min <= p95 <= p99 <= max.
C25_Percentiles ==
  comprehensiveSummary.called =>
    LET metrics == comprehensiveSummary.performanceMetrics
    IN /\ metrics.defined <=> (CarriedDurations # <<>>)
       /\ metrics.defined =>
            /\ metrics.p95ResponseTime = NearestRank(CarriedDurations, 95)
            /\ metrics.p99ResponseTime = NearestRank(CarriedDurations, 99)
            /\ metrics.minResponseTime <= metrics.p95ResponseTime
            /\ metrics.p95ResponseTime <= metrics.p99ResponseTime
            /\ metrics.p99ResponseTime <= metrics.maxResponseTime

\* The recommendations of the last summary that a rule has pushed.
Recommended(rule) ==
  {i \in 1..Len(comprehensiveSummary.recommendations) :
     comprehensiveSummary.recommendations[i].rule = rule}

BandRules ==
  {"Low API coverage detected", "Good coverage achieved", "Excellent coverage"}

\* C26: the recommendations hold the untested-mutating-operations entry
\* exactly when an uncovered declared operation has the method POST, PUT,
\* PATCH or DELETE, the admin entry exactly when an uncovered operation is
\* admin-tagged, and always exactly one coverage-band entry: the low one for
\* a coverage below 50, the middle one from 50 to below 80, the high one
\* from 80 on.
C26_Recommendations ==
  comprehensiveSummary.called =>
    LET uncovered == comprehensiveSummary.coverage.uncoveredEndpoints
        pct == comprehensiveSummary.coverage.coveragePercentage
        band == IF pct.num < 50 * pct.den THEN "Low API coverage detected"
                ELSE IF pct.num < 80 * pct.den THEN "Good coverage achieved"
                ELSE "Excellent coverage"
    IN /\ (Recommended("critical endpoints (POST/PUT/DELETE) are untested") # {})
            <=> (\E i \in 1..Len(uncovered) :
                   uncovered[i].method \in {"POST", "PUT", "PATCH", "DELETE"})
       /\ (Recommended("admin endpoints are untested") # {})
            <=> (\E i \in 1..Len(uncovered) :
                   /\ "tags" \in DOMAIN uncovered[i]
                   /\ \E k \in 1..Len(uncovered[i].tags) :
                        uncovered[i].tags[k] \in {"admin", "Admin"})
       /\ Cardinality(UNION {Recommended(rule) : rule \in BandRules}) = 1
       /\ Cardinality(Recommended(band)) = 1

\* C28: in the usage aggregates of a scope, firstCalled is the earliest and
\* lastCalled the latest timestamp among the endpoint's Observations, in
\* whatever order they were appended, and firstCalled <= lastCalled; the
\* callCount values sum to the number of Observations of the scope, and
\* averageDuration * callCount = totalDuration for every endpoint.
C28_EndpointUsage ==
  comprehensiveSummary.called =>
    LET endpointUsage == comprehensiveSummary.endpointUsage
    IN /\ \A u \in 1..Len(endpointUsage) :
            LET usage == endpointUsage[u]
                stamps == {SummaryScope[i].timestamp :
                             i \in {j \in 1..Len(SummaryScope) :
                                      UsageKey(SummaryScope[j]) = usage.endpoint}}
            IN /\ usage.firstCalled = Min(stamps)
               /\ usage.lastCalled = Max(stamps)
               /\ usage.firstCalled <= usage.lastCalled
               /\ usage.averageDuration.num * usage.callCount
                    = usage.totalDuration * usage.averageDuration.den
       /\ SumOf([u \in 1..Len(endpointUsage) |-> endpointUsage[u].callCount])
            = Len(SummaryScope)

\* An Observation is complete and final: its method is upper-case, its
\* timestamp and its fields are those of its settled call, it has a duration,
\* and it has a status exactly when the collaborator returned a response.
Complete(obs) ==
  /\ obs.id \in 1..Len(calls)
  /\ Done(obs.id)
  /\ obs = calls[obs.id].requestInfo
  /\ ToUpperCase(obs.method) = obs.method
  /\ obs.duration # Undefined
  /\ obs.duration >= 0
  /\ (obs.status # Undefined) <=> (calls[obs.id].settled.kind = "response")
  /\ calls[obs.id].settled.kind = "response" => obs.status = calls[obs.id].settled.status

\* Every Observation in a sequence is complete, and an entry of the shared
\* sequence is an entry of its interceptor's local sequence.
AllComplete ==
  /\ \A t \in Trackers : \A i \in 1..Len(requests[t]) : Complete(requests[t][i])
  /\ \A i \in 1..Len(globalStore) :
       /\ Complete(globalStore[i])
       /\ globalStore[i] \in Elems(requests[calls[globalStore[i].id].tracker])

\* C29: in every state, also while other calls are in flight, every
\* Observation in a local sequence or in the shared sequence is complete and
\* final: upper-case method, the call's start time as timestamp, a duration,
\* a status exactly when the collaborator returned a response; the entry in
\* the shared sequence is the entry of the interceptor's local sequence; and
\* no step changes an entry that is in a sequence or the timestamp a call
\* was given when it started.
C29_ObservationsFinal ==
  [][/\ \A c \in 1..Len(calls') :
          IF c > Len(calls)
            THEN calls'[c].requestInfo.timestamp = now
            ELSE calls'[c].requestInfo.timestamp = calls[c].requestInfo.timestamp
     /\ AllComplete'
     /\ \A t \in Trackers : \A i \in 1..Len(requests[t]) : requests'[t][i] = requests[t][i]
     /\ \A i \in 1..Len(globalStore) : globalStore'[i] = globalStore[i]]_vars

\* A call issued through fetch with a lower-case method has got an error
\* response a millisecond after it started, while an earlier call is still in
\* flight: its Observation is in the local and in the shared sequence.
C29_Witness ==
  /\ Len(calls) = 2
  /\ calls[1].pc = "await"
  /\ calls[2].pc = "returned"
  /\ calls[2].tracker = "t1"
  /\ requests["t1"] = <<calls[2].requestInfo>>
  /\ globalStore = requests["t1"]
  /\ globalStore[1].method = "POST"
  /\ globalStore[1].timestamp = 0
  /\ globalStore[1].duration = 1
  /\ globalStore[1].status = 404
  /\ now = 1

\* ------------------------------------------------------- a test session
\* The document of the session: a parameterized path declared before a
\* literal path that it also matches.
SessionCatalog ==
  << [path |-> <<"/", "a", "/", "{", "i", "}">>, methods |-> {"get"}],
     [path |-> <<"/", "a", "/", "b">>, methods |-> {"get", "post"}] >>

\* The URLs of the session's calls: an absolute one, and one relative to the
\* context's baseURL that carries a query.
AbsoluteUrl == [base |-> "https://h", pathname |-> <<"/", "a", "/", "b">>, search |-> <<>>]
RelativeUrl == [base |-> "", pathname |-> <<"/", "a", "/", "b">>, search |-> <<"?", "q">>]

\* A PlaySwag instance with the document loaded and nothing recorded.
InitSession ==
  /\ InitTracker
  /\ parser = SessionCatalog
  /\ requestPath = <<>>
  /\ endpointList = NoEndpointList
  /\ matchResult = NoMatchResult
  /\ report = NoReport
  /\ analyzer = TRUE
  /\ loads = <<>>
  /\ lastCall = NoCall
  /\ files = <<>>
  /\ comprehensiveSummary = NoSummary

\* What the session's calls settle with: every call gets a success response
\* within the millisecond.
SessionOutcomes == {o \in StoreOutcomes : o.kind = "response"}

\* The owner issues GET calls and, through fetch with a lower-case method,
\* one POST call; calls settle; the sequences are cleared; reports are made
\* of either scope.
NextSession ==
  \/ get(Owner, AbsoluteUrl)
  \/ /\ \A c \in 1..Len(calls) : calls[c].requestInfo.method # "POST"
     /\ \E url \in {AbsoluteUrl, RelativeUrl} : fetch(Owner, url, "post")
  \/ \E c \in 1..MaxCalls, outcome \in SessionOutcomes, latency \in StoreLatencies :
       resume(c, outcome, latency)
  \/ clearRequests(Owner)
  \/ clearGlobalRequests(Owner)
  \/ \E useGlobalData \in BOOLEAN : Analyze(Owner, useGlobalData)

SpecSession == InitSession /\ [][NextSession]_vars

\* The declared operation an Observation is credited to: the index, in
\* catalog order, of the first one whose template matches the path of the
\* Observation's URL and whose method is the Observation's, both upper-cased;
\* 0 when there is none.
Credit(obs) ==
  LET specEndpoints == getEndpoints(parser)
      matching == {i \in 1..Len(specEndpoints) :
                     /\ TemplateMatches(specEndpoints[i].path, 1, PathOnly(obs.url), 1)
                     /\ ToUpperCase(specEndpoints[i].method) = ToUpperCase(obs.method)}
  IN IF matching = {} THEN 0 ELSE Min(matching)

\* The report counts as covered the operations its Observations are
\* credited to, and lists the others as uncovered.
CoversCredited ==
  report.called =>
    LET specEndpoints == getEndpoints(parser)
        credited == {Credit(Scope[k]) : k \in 1..Len(Scope)} \ {0}
    IN /\ report.coveredEndpoints = Cardinality(credited)
       /\ report.uncoveredEndpoints =
            SelectSeq(specEndpoints,
                      LAMBDA ep : \A i \in credited : specEndpoints[i] # ep)

\* C24: an analyze credits each Observation of the scope to at most one
\* declared operation, the first in catalog order whose template matches the
\* path of the URL and whose method is the Observation's (compared
\* upper-cased, so a lower-case fetch method matches); of several matching
\* templates only the first is covered by the Observation.
C24_FirstMatchCredit ==
  [][report' # report => CoversCredited']_vars

\* The sequence of a scope.
ScopeOf(useGlobalData) == requestsToUse(Owner, useGlobalData)

\* No clear has been applied to a scope.
NeverCleared(useGlobalData) == IF useGlobalData THEN ~clearedGlobal ELSE ~clearedLocal

\* A later report covers no less than an earlier one and lists no operation
\* as uncovered that the earlier one did not.
CoversNoLess(earlier, later) ==
  /\ later.coveredEndpoints >= earlier.coveredEndpoints
  /\ Elems(later.uncoveredEndpoints) \subseteq Elems(earlier.uncoveredEndpoints)

\* What analyze counts as covered and lists as uncovered for a sequence.
coverageOf(reqs) ==
  LET specEndpoints == getEndpoints(parser)
      coveredEndpoints == getCoveredEndpoints(matchRequests(parser, reqs), {}, <<>>)
  IN [coveredEndpoints |-> Len(coveredEndpoints),
      uncoveredEndpoints |-> getUncoveredEndpoints(specEndpoints, coveredEndpoints)]

\* Whatever a scope held before the appends that made it what it is, its
\* coverage was no more than it is now.
MonotoneUnderAppends ==
  \A useGlobalData \in BOOLEAN :
    \A n \in 0..Len(ScopeOf(useGlobalData)) :
      CoversNoLess(coverageOf(SubSeq(ScopeOf(useGlobalData), 1, n)),
                   coverageOf(ScopeOf(useGlobalData)))

\* C30: with the catalog fixed and no clear applied to the selected scope,
\* coverage is monotone under appends: the coverage of a sequence is never
\* lower than that of what it held before its latest appends, and of two
\* successive reports of a scope that was never cleared the later has no
\* smaller coveredCount and no operation in its uncovered list that the
\* earlier did not list.
C30_MonotoneCoverage ==
  /\ []MonotoneUnderAppends
  /\ [][/\ parser' = parser
        /\ (/\ report.called
            /\ report'.called
            /\ report'.tracker = report.tracker
            /\ report'.useGlobalData = report.useGlobalData
            /\ NeverCleared(report.useGlobalData)') =>
             CoversNoLess(report, report')]_vars

\* A report of the local scope covered one of the three operations with one
\* Observation; a second call has settled since and nothing was cleared: the
\* next report of the scope covers two.
C30_Witness ==
  /\ report.called
  /\ ~report.useGlobalData
  /\ report.coveredEndpoints = 1
  /\ report.requestSummary.totalRequests = 1
  /\ NeverCleared(FALSE)
  /\ Len(ScopeOf(FALSE)) = 2
  /\ analyze(Owner, FALSE).coveredEndpoints = 2

\* The owner issues GET calls; calls settle; the sequences are cleared;
\* reports are made of either scope, summaries and exports of the local one.
NextReports ==
  \/ get(Owner, AbsoluteUrl)
  \/ \E c \in 1..MaxCalls, outcome \in SessionOutcomes, latency \in StoreLatencies :
       resume(c, outcome, latency)
  \/ clearRequests(Owner)
  \/ clearGlobalRequests(Owner)
  \/ \E useGlobalData \in BOOLEAN : Analyze(Owner, useGlobalData)
  \/ generateComprehensiveSummary(FALSE)
  \/ \E filePath \in FilePaths : exportResults(Owner, "csv", TRUE, filePath, FALSE)

SpecReports == InitSession /\ [][NextReports]_vars

\* A report is what the sequence of its scope makes it.
ReflectsScope(rep, reqs) ==
  /\ rep.requestSummary.totalRequests = Len(reqs)
  /\ rep.totalEndpoints = Len(getEndpoints(parser))
  /\ rep.coveredEndpoints = coverageOf(reqs).coveredEndpoints
  /\ rep.uncoveredEndpoints = coverageOf(reqs).uncoveredEndpoints

\* C27: a step that makes a report, a comprehensive summary (with its
\* recommendations) or an export leaves the local sequences, the shared
\* sequence and the catalog as they are, and what it makes is computed from
\* the sequence of the selected scope as it is at that step, after whatever
\* calls have settled and whatever was cleared, never from an earlier
\* result.
C27_NoCachingNoMutation ==
  [][/\ (\/ report' # report
         \/ comprehensiveSummary' # comprehensiveSummary
         \/ files' # files
         \/ lastCall' # lastCall) =>
          /\ requests' = requests
          /\ globalStore' = globalStore
          /\ parser' = parser
     /\ \A useGlobalData \in BOOLEAN :
          (report' # report /\ report'.useGlobalData = useGlobalData) =>
            ReflectsScope(report', ScopeOf(useGlobalData))
     /\ comprehensiveSummary' # comprehensiveSummary =>
          /\ comprehensiveSummary'.coverage = report'
          /\ comprehensiveSummary'.requestSummary.totalRequests = Len(ScopeOf(FALSE))
          /\ SumOf([u \in 1..Len(comprehensiveSummary'.endpointUsage) |->
                      comprehensiveSummary'.endpointUsage[u].callCount])
               = Len(ScopeOf(FALSE))
     /\ files' # files =>
          \A filePath \in DOMAIN files' :
            files'[filePath] # (IF filePath \in DOMAIN files THEN files[filePath] ELSE <<>>) =>
              /\ files'[filePath].requests = ScopeOf(FALSE)
              /\ Len(files'[filePath].content) = Len(ScopeOf(FALSE)) + 1]_vars

\* A summary and an export were made of two Observations; the local sequence
\* was cleared afterwards and a report of it made: the report shows no
\* request and nothing covered, the sequences of the summary and of the file
\* being gone.
C27_Witness ==
  /\ comprehensiveSummary.called
  /\ comprehensiveSummary.requestSummary.totalRequests = 2
  /\ comprehensiveSummary.coverage.coveredEndpoints = 1
  /\ "out" \in DOMAIN files
  /\ Len(files["out"].content) = 3
  /\ clearedLocal
  /\ requests[Owner] = <<>>
  /\ Len(globalStore) = 2
  /\ report.called
  /\ ~report.useGlobalData
  /\ report.requestSummary.totalRequests = 0
  /\ report.coveredEndpoints = 0

====
